---- MODULE Spec2Model ----
(***************************************************************************)
(* Byte-level model of the BookmarkData codec of mattetti/cocoa:           *)
(*   BookmarkData.Write      (bookmark_data.go)                            *)
(*   offsetMap.Bytes         (bookmark_data.go)                            *)
(*   the typed-value encoders (encoding.go)                                *)
(*   AliasFromReader and the bookmarkDecoder (the darwin decoder files).   *)
(*                                                                         *)
(* Byte strings are sequences over 0..255.  Go strings and []byte are the  *)
(* same sequences; a nil slice and an empty slice are both << >>.          *)
(* A uint32 is a natural below 2^31; a uint64 is the pair of its 32-bit     *)
(* halves.  A time.Time is a record: kind "zero" (the Go zero time), "far"  *)
(* (any instant more than 292 years after the Darwin epoch), "at" (h        *)
(* half-seconds since the Darwin epoch); decoding can also yield "satmin"   *)
(* and "satmax", the instants Epoch -/+ 9223372036 s that a saturated       *)
(* Duration decodes to, and "f64" for any other float64 (raw bytes kept).   *)
(***************************************************************************)
EXTENDS Integers, Sequences, FiniteSets, TLC

(***************************************************************************)
(* Bounds of the model.                                                    *)
(***************************************************************************)
\* components of Path, entries of CNIDPath
MaxPathLen == 2
MaxCnidLen == 3
\* positions of the sorted keys a map iteration is started from: 0..MaxRot
MaxRot == 2

(***************************************************************************)
(* cocoa.go: type masks and TOC keys.                                      *)
(***************************************************************************)
bmk_string == 256
bmk_data == 512
bmk_number == 768
bmk_date == 1024
bmk_boolean == 1280
bmk_array == 1536
bmk_url == 2304
bmk_st_zero == 0
bmk_st_one == 1
bmk_boolean_st_false == 0
bmk_boolean_st_true == 1
bmk_url_st_absolute == 1
KCFNumberSInt32Type == 3
KCFNumberSInt64Type == 4

KBookmarkPath == 4100
KBookmarkCNIDPath == 4101
KBookmarkFileProperties == 4112
KBookmarkFileID == 4144
KBookmarkFileCreationDate == 4160
KBookmarkTOCPath == 8192
KBookmarkVolumePath == 8194
KBookmarkVolumeURL == 8197
KBookmarkVolumeName == 8208
KBookmarkVolumeUUID == 8209
KBookmarkVolumeSize == 8210
KBookmarkVolumeCreationDate == 8211
KBookmarkVolumeProperties == 8224
KBookmarkVolumeIsRoot == 8240
KBookmarkContainingFolder == 49153
KBookmarkUserName == 49169
KBookmarkUID == 49170
KBookmarkWasFileReference == 53249
KBookmarkCreationOptions == 53264
KBookmarkURLLengths == 57347
KBookmarkFullFileName == 61463
KBookmarkFileType == 61474

(***************************************************************************)
(* Byte helpers: make([]byte, n), binary.LittleEndian put/get.             *)
(***************************************************************************)
Zeros(n) == [i \in 1..n |-> 0]

\* e, with x evaluated first: TLC evaluates LET definitions and operator
\* arguments on demand, and a long chain of pending ones exhausts its stack
Eval(x, e) == IF x = x THEN e ELSE e

\* `v := ...` followed by the statements F that use v
Bind(v, F(_)) == F(v)

PutUint32(n) ==
  <<n % 256, (n \div 256) % 256, (n \div 65536) % 256, (n \div 16777216) % 256>>

\* a uint64/int64 is the pair of its 32-bit halves
U64(n) == [hi |-> 0, lo |-> n]

PutUint64(v) == PutUint32(v.lo) \o PutUint32(v.hi)

Uint32(bs) == bs[1] + (256 * bs[2]) + (65536 * bs[3]) + (16777216 * bs[4])

Uint64(bs) == [hi |-> Uint32(SubSeq(bs, 5, 8)), lo |-> Uint32(SubSeq(bs, 1, 4))]

RECURSIVE Pow2(_)
Pow2(k) == IF k = 0 THEN 1 ELSE 2 * Pow2(k - 1)

RECURSIVE Log2(_)
Log2(a) == IF a < 2 THEN 0 ELSE 1 + Log2(a \div 2)

(***************************************************************************)
(* time.Time.Sub(darwin.Epoch).Seconds() written as a big-endian float64,  *)
(* and int64(float64) read back.  Sub saturates at +/- 2^63 ns.            *)
(***************************************************************************)
SatMinBytes == <<194, 1, 46, 11, 232, 38, 214, 149>>
SatMaxBytes == <<66, 1, 46, 11, 232, 38, 214, 149>>

ZeroTime == [kind |-> "zero", h |-> 0, raw |-> << >>]
FarTime == [kind |-> "far", h |-> 0, raw |-> << >>]
At(h) == [kind |-> "at", h |-> h, raw |-> << >>]

Float64BE(t) ==
  IF t.kind = "zero" THEN SatMinBytes
  ELSE IF t.kind = "far" THEN SatMaxBytes
  ELSE IF t.h = 0 THEN Zeros(8)
  ELSE LET a == IF t.h < 0 THEN 0 - t.h ELSE t.h
           sign == IF t.h < 0 THEN 1 ELSE 0
           k == Log2(a)
           biased == 1022 + k
           frac == (a - Pow2(k)) * Pow2(20 - k)
       IN <<(sign * 128) + (biased \div 16),
            ((biased % 16) * 16) + (frac \div 65536),
            (frac \div 256) % 256,
            frac % 256, 0, 0, 0, 0>>

\* Epoch.Add(time.Duration(int64(secs)) * time.Second) for the float64 in bs
TimeOfFloat64BE(bs) ==
  IF bs = SatMinBytes THEN [kind |-> "satmin", h |-> 0, raw |-> << >>]
  ELSE IF bs = SatMaxBytes THEN [kind |-> "satmax", h |-> 0, raw |-> << >>]
  ELSE IF bs = Zeros(8) THEN At(0)
  ELSE LET sign == bs[1] \div 128
           biased == ((bs[1] % 128) * 16) + (bs[2] \div 16)
           frac == ((bs[2] % 16) * 65536) + (bs[3] * 256) + bs[4]
           k == biased - 1022
       IN IF SubSeq(bs, 5, 8) = Zeros(4) /\ k >= 0 /\ k <= 20
             /\ frac % Pow2(20 - k) = 0
            THEN LET a == Pow2(k) + (frac \div Pow2(20 - k))
                     secs == a \div 2
                 IN IF sign = 1 THEN At(0 - (2 * secs)) ELSE At(2 * secs)
            ELSE [kind |-> "f64", h |-> 0, raw |-> bs]

(***************************************************************************)
(* encoding.go                                                             *)
(***************************************************************************)
padBytes(bs) ==
  IF Len(bs) % 4 > 0 THEN bs \o Zeros(4 - (Len(bs) % 4)) ELSE bs

padBuf(buf) == padBytes(buf)

encodedBytes(bs) ==
  padBytes(PutUint32(Len(bs)) \o PutUint32(bmk_data + bmk_st_one) \o bs)

\* a String written without the trailing padding
encodedStringItemNoPad(str) ==
  PutUint32(Len(str)) \o PutUint32(bmk_string + bmk_st_one) \o str

encodedStringItem(str) ==
  padBytes(PutUint32(Len(str)) \o PutUint32(bmk_string + bmk_st_one) \o str)

encodedTime(ts) ==
  PutUint32(8) \o PutUint32(bmk_date + bmk_st_zero) \o Float64BE(ts)

encodedBool(v) ==
  Zeros(4) \o (IF v THEN PutUint32(bmk_boolean + bmk_boolean_st_true)
                    ELSE PutUint32(bmk_boolean + bmk_boolean_st_false))

encodedUint32(n) ==
  PutUint32(4) \o PutUint32(bmk_number + KCFNumberSInt32Type) \o PutUint32(n)

encodedUint64(n) ==
  PutUint32(8) \o PutUint32(bmk_number + KCFNumberSInt64Type) \o PutUint64(n)

(***************************************************************************)
(* bookmark_data.go: TargetPath, prepareTypeData                           *)
(***************************************************************************)
Slash == 47
Dot == 46

\* filepath.Join for components that hold no separator and are not "." or
\* "..": empty components are dropped, the rest joined with "/"
\* the components run together, with no separator between them
RECURSIVE JoinNoSlash(_)
JoinNoSlash(path) ==
  IF path = << >> THEN << >>
  ELSE Head(path) \o JoinNoSlash(Tail(path))

RECURSIVE Join(_)
Join(path) ==
  IF path = << >> THEN << >>
  ELSE LET rest == Join(Tail(path))
       IN IF Head(path) = << >> THEN rest
          ELSE IF rest = << >> THEN Head(path)
          ELSE Head(path) \o <<Slash>> \o rest

\* the volume path and the joined path with a separator put between them
TargetPathSeparated(b) == b.VolumePath \o <<Slash>> \o Join(b.Path)

TargetPath(b) == b.VolumePath \o Join(b.Path)

\* filepath.Ext: the suffix from the last dot of the last path element
RECURSIVE ExtFrom(_, _)
ExtFrom(p, i) ==
  IF i < 1 \/ p[i] = Slash THEN << >>
  ELSE IF p[i] = Dot THEN SubSeq(p, i, Len(p))
  ELSE ExtFrom(p, i - 1)

Ext(p) == ExtFrom(p, Len(p))

\* the type data with the extension taken from the Filename field
prepareTypeDataOfFilename(b) ==
  Bind(Ext(b.Filename), LAMBDA e :
  Bind(IF e # << >> /\ e[1] = Dot THEN Tail(e) ELSE e, LAMBDA ext :
    <<100, 110, 105, 98, 0, 0, 0, 0, 1, 0, 0, 0, 0, 0, 0, 0>>
    \o Zeros(12) \o PutUint32(Len(ext)) \o Zeros(4) \o ext
    \o <<63, 63, 63, 63, 1>> \o Zeros(7)))

prepareTypeData(b) ==
  Bind(Ext(TargetPath(b)), LAMBDA e :
  Bind(IF e # << >> /\ e[1] = Dot THEN Tail(e) ELSE e, LAMBDA ext :
    <<100, 110, 105, 98, 0, 0, 0, 0, 1, 0, 0, 0, 0, 0, 0, 0>>
    \o Zeros(12) \o PutUint32(Len(ext)) \o Zeros(4) \o ext
    \o <<63, 63, 63, 63, 1>> \o Zeros(7)))

(***************************************************************************)
(* bookmark_data.go: offsetMap                                             *)
(***************************************************************************)
EmptyMap == [k \in {} |-> 0]

Put(m, k, v) == [x \in DOMAIN m \cup {k} |-> IF x = k THEN v ELSE m[x]]

Min(S) == CHOOSE x \in S : \A y \in S : x <= y

Max(S) == CHOOSE x \in S : \A y \in S : x >= y

\* the keys in descending order
RECURSIVE DescendingKeys(_)
DescendingKeys(S) ==
  IF S = {} THEN << >>
  ELSE <<Max(S)>> \o DescendingKeys(S \ {Max(S)})

\* sort.Ints over the keys of the map
RECURSIVE SortedKeys(_)
SortedKeys(S) ==
  IF S = {} THEN << >>
  ELSE <<Min(S)>> \o SortedKeys(S \ {Min(S)})

\* the entries with the body offset stored as it is, without the + 4
RECURSIVE TocEntriesNoAdjust(_, _)
TocEntriesNoAdjust(oMap, keys) ==
  IF keys = << >> THEN << >>
  ELSE PutUint32(Head(keys)) \o PutUint32(oMap[Head(keys)]) \o PutUint32(0)
       \o TocEntriesNoAdjust(oMap, Tail(keys))

RECURSIVE TocEntries(_, _)
TocEntries(oMap, keys) ==
  IF keys = << >> THEN << >>
  ELSE PutUint32(Head(keys)) \o PutUint32(oMap[Head(keys)] + 4) \o PutUint32(0)
       \o TocEntries(oMap, Tail(keys))

offsetMapBytes(oMap) ==
  LET n == Cardinality(DOMAIN oMap)
  IN PutUint32((3 * 4) + (n * (3 * 4)))
     \o <<254, 255, 255, 255>>
     \o PutUint32(1)
     \o PutUint32(0)
     \o PutUint32(n)
     \o TocEntries(oMap, SortedKeys(DOMAIN oMap))

(***************************************************************************)
(* bookmark_data.go: BookmarkData.Write.                                   *)
(* A write state is the body buffer, the offset map, the locals of Write,  *)
(* `emits`: the body length at the start of every typed value written,     *)
(* and `vals`: for every recorded key, the typed value it was recorded for.*)
(***************************************************************************)
\* oMap[key] = off; vals remembers the typed value the key was recorded for
RecAt(st, key, off, bytes) ==
  [st EXCEPT !.oMap = Put(@, key, off), !.vals = Put(@, key, bytes)]

Rec(st, key, bytes) == RecAt(st, key, Len(st.buf), bytes)

Mark(st) == [st EXCEPT !.emits = Append(@, Len(st.buf))]

Wr(st, bytes) == [st EXCEPT !.buf = @ \o bytes]

Pad(st) == [st EXCEPT !.buf = padBuf(@)]

\* record the key, write one typed value, pad
Emit(st, key, bytes) == Pad(Wr(Mark(Rec(st, key, bytes)), bytes))

RECURSIVE PutUint32s(_)
PutUint32s(ns) ==
  IF ns = << >> THEN << >> ELSE PutUint32(Head(ns)) \o PutUint32s(Tail(ns))

\* lines 73-79: pathOffsets[i] and usernameOffset for item i
NotePathItem(b, st, i) ==
  [st EXCEPT !.pathOffsets = Append(@, 4 + Len(st.buf)),
             !.usernameOffset =
                IF b.Path[i] = b.UserName THEN Len(st.buf) ELSE @]

\* the first item recorded as the full file name
NoteFirstAsFileName(b, st, i) ==
  IF i = 1
    THEN RecAt(st, KBookmarkFullFileName, Len(st.buf),
               encodedStringItem(b.Path[i]))
    ELSE st

\* lines 80-82: the last item is recorded as the full file name
NoteFileName(b, st, i) ==
  IF i = Len(b.Path)
    THEN RecAt(st, KBookmarkFullFileName, Len(st.buf),
               encodedStringItem(b.Path[i]))
    ELSE st

\* lines 69-84: one String per path component
RECURSIVE WritePathItems(_, _, _)
WritePathItems(b, st, i) ==
  IF i > Len(b.Path) THEN st
  ELSE WritePathItems(
         b,
         Wr(Mark(NoteFileName(b, NotePathItem(b, st, i), i)),
            encodedStringItem(b.Path[i])),
         i + 1)

\* lines 103-105: cnidOffsets[i] and the CNID as a 64-bit number
WriteCnidItem(b, st, i) ==
  Wr(Mark([st EXCEPT !.cnidOffsets[i] = 4 + Len(st.buf)]),
     encodedUint64(b.CNIDPath[i]))

\* lines 102-106: cnidOffsets has len(b.Path) slots; indexing past them panics
RECURSIVE WriteCnidItems(_, _, _)
WriteCnidItems(b, st, i) ==
  IF i > Len(b.CNIDPath) THEN st
  ELSE IF i > Len(b.Path) THEN [st EXCEPT !.panic = TRUE]
  ELSE WriteCnidItems(b, WriteCnidItem(b, st, i), i + 1)

\* lines 223-230
TocPathOffsets(b, slashPos) ==
  <<slashPos + 52, slashPos + 52 + 4, slashPos + 52 + 8>>
  \o [i \in 1..(IF Len(b.Path) > 2 THEN Len(b.Path) - 2 ELSE 0)
        |-> slashPos + 52 + 4]

\* lines 49-66 and 68, 101: the locals of Write before the first statement
NewBody(b) ==
  [buf |-> << >>, oMap |-> EmptyMap, emits |-> << >>, vals |-> EmptyMap,
   slashPos |-> 0, usernameOffset |-> 0, trueOffset |-> 0,
   pathOffsets |-> << >>, cnidOffsets |-> Zeros(Len(b.Path)),
   panic |-> FALSE]

\* lines 53-54
WriteCreationOptions(st) ==
  Wr(Mark(Rec(st, KBookmarkCreationOptions, encodedUint32(1024))),
     encodedUint32(1024))

\* line 56
NoteSlashPos(st) == [st EXCEPT !.slashPos = Len(st.buf)]

\* lines 58-63
WriteSlash(b, st) ==
  IF ~b.VolumeIsRoot
    THEN Wr(Wr(Wr(st, <<Slash, 0, 0, 0>>), <<0, 240, 0, 0>>), <<72, 0, 0, 0>>)
    ELSE st

\* lines 91-99
WritePathArray(b, st) ==
  Emit(st, KBookmarkPath,
       PutUint32(Len(b.Path) * 4) \o PutUint32(bmk_array + bmk_st_one)
       \o PutUint32s(st.pathOffsets))

\* lines 109-115
WriteCnidArray(b, st) ==
  Emit(st, KBookmarkCNIDPath,
       PutUint32(Len(b.CNIDPath) * 4) \o PutUint32(bmk_array + bmk_st_one)
       \o PutUint32s(st.cnidOffsets))

\* lines 152-156
WriteContainingFolder(b, st) ==
  IF b.VolumeIsRoot
    THEN Emit(st, KBookmarkContainingFolder,
              encodedUint64(U64(b.ContainingFolderIDX)))
    ELSE st

\* lines 159-163
WriteUID(b, st) ==
  IF b.VolumeIsRoot THEN Emit(st, KBookmarkUID, encodedUint32(b.UID)) ELSE st

\* lines 166-171
WriteVolumeURL(b, st) ==
  Emit(st, KBookmarkVolumeURL,
       PutUint32(Len(b.VolumeURL)) \o PutUint32(bmk_url + bmk_url_st_absolute)
       \o b.VolumeURL)

\* lines 218-239
WriteTOCPath(b, st) ==
  IF ~b.VolumeIsRoot
    THEN Emit(st, KBookmarkTOCPath,
              PutUint32(42) \o PutUint32(bmk_array + bmk_st_one)
              \o PutUint32s(TocPathOffsets(b, st.slashPos)))
    ELSE st

\* lines 242-250
WriteVolumeIsRoot(b, st) ==
  IF b.VolumeIsRoot
    THEN IF b.VolumeIsRoot /\ st.trueOffset > 0
           THEN RecAt(st, KBookmarkVolumeIsRoot, st.trueOffset,
                      encodedBool(TRUE))
           ELSE Emit(st, KBookmarkVolumeIsRoot, encodedBool(b.VolumeIsRoot))
    ELSE st

\* lines 253-261
WriteUserName(b, st) ==
  IF b.VolumeIsRoot
    THEN IF st.usernameOffset > 0
           THEN RecAt(st, KBookmarkUserName, st.usernameOffset,
                      encodedStringItem(b.UserName))
           ELSE Emit(st, KBookmarkUserName, encodedStringItem(b.UserName))
    ELSE st

\* lines 109-261: the statements after the CNID loop, which a panic in the
\* loop never reaches
WriteAfterCnids(b, st) ==
  IF st.panic THEN st
  ELSE
  LET s6 == WriteCnidArray(b, st)
      \* lines 118-120
      s7 == Emit(s6, KBookmarkFileCreationDate, encodedTime(b.FileCreationDate))
      \* lines 131-133
      s8 == Emit(s7, KBookmarkFileProperties, encodedBytes(b.FileProperties))
      s9 == WriteContainingFolder(b, s8)
      s10 == WriteUID(b, s9)
      s11 == WriteVolumeURL(b, s10)
      \* lines 174-201
      s12 == Emit(s11, KBookmarkVolumeName, encodedStringItem(b.VolumeName))
      s13 == Emit(s12, KBookmarkVolumeSize, encodedUint64(b.VolumeSize))
      s14 == Emit(s13, KBookmarkVolumeCreationDate,
                  encodedTime(b.VolumeCreationDate))
      s15 == Emit(s14, KBookmarkVolumeUUID, encodedStringItem(b.VolumeUUID))
      s16 == Emit(s15, KBookmarkVolumeProperties,
                  encodedBytes(b.VolumeProperties))
      s17 == Emit(s16, KBookmarkVolumePath, encodedStringItem(b.VolumePath))
      \* lines 204-207
      s18 == Emit(s17, KBookmarkFileType, encodedBytes(prepareTypeData(b)))
      s19 == WriteTOCPath(b, s18)
      s20 == WriteVolumeIsRoot(b, s19)
  IN WriteUserName(b, s20)

\* lines 49-261: the body buffer and the offset map
WriteBody(b) ==
  LET s1 == NoteSlashPos(WriteCreationOptions(NewBody(b)))
      s2 == WriteSlash(b, s1)
      \* lines 69-85
      s3 == Pad(WritePathItems(b, s2, 1))
      s4 == WritePathArray(b, s3)
      \* lines 101-106
      s5 == WriteCnidItems(b, s4, 1)
  IN WriteAfterCnids(b, s5)

\* a header with 8 reserved bytes instead of 16
HeaderBytesShort(bodyLen, tocLen) ==
  <<98, 111, 111, 107>> \o Zeros(4) \o <<109, 97, 114, 107>> \o Zeros(4)
  \o PutUint32(56) \o PutUint32(56)
  \o PutUint32(4 + (bodyLen + tocLen))
  \o <<0, 0, 4, 16, 0, 0, 0, 0>>
  \o Zeros(8)
  \o <<99, 101, 47, 115>>

\* lines 264-287: the header and the field that follows it
HeaderBytes(bodyLen, tocLen) ==
  <<98, 111, 111, 107>> \o Zeros(4) \o <<109, 97, 114, 107>> \o Zeros(4)
  \o PutUint32(56) \o PutUint32(56)
  \o PutUint32(4 + (bodyLen + tocLen))
  \o <<0, 0, 4, 16, 0, 0, 0, 0>>
  \o Zeros(16)
  \o <<99, 101, 47, 115>>

\* lines 264-295: what Write hands to w.Write, with the pieces it was
\* assembled from
Assemble(st, toc) ==
  [panic |-> st.panic,
   bytes |-> IF st.panic THEN << >>
             ELSE HeaderBytes(Len(st.buf), Len(toc))
                  \o PutUint32(4 + Len(st.buf)) \o st.buf \o toc,
   header |-> HeaderBytes(Len(st.buf), Len(toc)),
   tocField |-> PutUint32(4 + Len(st.buf)),
   body |-> st.buf, toc |-> toc,
   oMap |-> st.oMap, emits |-> st.emits, vals |-> st.vals]

Write(b) ==
  Bind(WriteBody(b), LAMBDA st : Assemble(st, offsetMapBytes(st.oMap)))

(***************************************************************************)
(* The bookmarkDecoder: a bytes.Reader over the whole input (data, rpos),  *)
(* the position the decoder believes it is at (pos), the sticky error, and *)
(* the value being filled (b).                                             *)
(***************************************************************************)
NoErr == "nil"

ZeroData ==
  [FileSystemType |-> << >>, Path |-> << >>, CNIDPath |-> << >>,
   FileCreationDate |-> ZeroTime, FileProperties |-> << >>,
   TypeData |-> << >>, ContainingFolderIDX |-> 0, VolumePath |-> << >>,
   VolumeIsRoot |-> FALSE, VolumeURL |-> << >>, VolumeName |-> << >>,
   VolumeSize |-> U64(0), VolumeCreationDate |-> ZeroTime,
   VolumeUUID |-> << >>, VolumeProperties |-> << >>, CreationOptions |-> 0,
   WasFileReference |-> FALSE, UserName |-> << >>, CNID |-> 0, UID |-> 0,
   Filename |-> << >>]

newBookmarkDecoder(data) ==
  [data |-> data, rpos |-> 0, pos |-> 0, err |-> NoErr, b |-> ZeroData,
   headerSize |-> 0, bodySize |-> 0, tocOffset |-> 0, oMap |-> EmptyMap]

setError(d, e) ==
  IF e = NoErr THEN d
  ELSE IF d.err = NoErr
    THEN [d EXCEPT !.err = IF e = "EOF" THEN "unexpected EOF" ELSE e]
    ELSE d

SeekStart == 0
SeekCurrent == 1

\* bytes.Reader.Seek: a negative target is an error and reports position 0
seek(d, offset, whence) ==
  LET abs == IF whence = SeekStart THEN offset ELSE d.rpos + offset
  IN IF abs < 0
       THEN setError([d EXCEPT !.pos = 0], "negative position")
       ELSE [d EXCEPT !.rpos = abs, !.pos = abs]

\* binary.Read of n bytes; on a short read the destination is left as it
\* was (ok = FALSE) and the reader has consumed what there was
read(d, n) ==
  IF d.err # NoErr THEN [d |-> d, ok |-> FALSE, bytes |-> << >>]
  ELSE LET avail == IF Len(d.data) > d.rpos THEN Len(d.data) - d.rpos ELSE 0
       IN IF n <= avail
            THEN [d |-> [d EXCEPT !.pos = @ + n, !.rpos = @ + n],
                  ok |-> TRUE,
                  bytes |-> SubSeq(d.data, d.rpos + 1, d.rpos + n)]
            ELSE [d |-> setError([d EXCEPT !.pos = @ + n,
                                           !.rpos = IF avail > 0
                                                      THEN Len(d.data) ELSE @],
                                 IF avail > 0 THEN "unexpected EOF" ELSE "EOF"),
                  ok |-> FALSE, bytes |-> << >>]

\* d.read(&v) for a uint32 v that holds `old` before the call
readUint32(d, old) ==
  Bind(read(d, 4),
       LAMBDA r : [d |-> r.d, v |-> IF r.ok THEN Uint32(r.bytes) ELSE old])

\* d.read(&buf) for a byte slice of length n that holds `old` before the call
readInto(d, n, old) ==
  Bind(read(d, n), LAMBDA r : [d |-> r.d, v |-> IF r.ok THEN r.bytes ELSE old])

\* d.read(&buf) for a freshly made byte slice of length n
readBytes(d, n) == readInto(d, n, Zeros(n))

\* typeMask & bmk_data_type_mask
dataType(typeMask) == typeMask - (typeMask % 256)

\* typeMask & bmk_data_subtype_mask
dataSubType(typeMask) == typeMask % 256

\* the common prologue of the decoders: d.read(&len); d.read(&typeMask)
readLenAndType(d) ==
  Bind(readUint32(d, 0), LAMBDA r1 :
  Bind(readUint32(r1.d, 0), LAMBDA r2 :
    [d |-> r2.d, len |-> r1.v, typeMask |-> r2.v]))

aliasHeader(d) ==
  Bind(readBytes(d, 4), LAMBDA r1 :
    IF r1.v # <<98, 111, 111, 107>>
      THEN [d |-> r1.d, err |-> "invalid bookmark file - bad header"]
    ELSE
  Bind(readInto(seek(r1.d, 4, SeekCurrent), 4, r1.v), LAMBDA r3 :
    IF r3.v # <<109, 97, 114, 107>>
      THEN [d |-> r3.d, err |-> "invalid bookmark file - bad header"]
    ELSE
  Bind(readUint32(seek(r3.d, 4, SeekCurrent), 0), LAMBDA r5 :
  Bind(readUint32(seek([r5.d EXCEPT !.headerSize = r5.v], 4, SeekCurrent), 0),
       LAMBDA r7 :
  Bind(seek([r7.d EXCEPT !.bodySize = r7.v], 28, SeekCurrent), LAMBDA d8 :
    IF d8.pos # d8.headerSize
      THEN [d |-> d8, err |-> "header size didn't match expectations"]
      ELSE [d |-> d8, err |-> d8.err])))))

\* one pass of the entry loop with 4 taken off the absolute position
tocEntryLess4(d, key, offset) ==
  Bind(readUint32(d, key), LAMBDA rk :
  Bind(readUint32(rk.d, offset), LAMBDA ro :
  Bind(seek(ro.d, 4, SeekCurrent), LAMBDA d3 :
    [d |-> [d3 EXCEPT !.oMap = Put(@, rk.v, (ro.v + d3.headerSize) - 4)],
     key |-> rk.v, offset |-> ro.v])))

\* one pass of the entry loop of toc(): key and offset keep their last value
\* when a read fails
tocEntry(d, key, offset) ==
  Bind(readUint32(d, key), LAMBDA rk :
  Bind(readUint32(rk.d, offset), LAMBDA ro :
  Bind(seek(ro.d, 4, SeekCurrent), LAMBDA d3 :
    [d |-> [d3 EXCEPT !.oMap = Put(@, rk.v, ro.v + d3.headerSize)],
     key |-> rk.v, offset |-> ro.v])))

RECURSIVE tocEntries(_, _, _, _)
tocEntries(d, n, key, offset) ==
  IF n = 0 THEN d
  ELSE Bind(tocEntry(d, key, offset),
            LAMBDA e : Eval(e, tocEntries(e.d, n - 1, e.key, e.offset)))

\* toc() without the comparison of the magic number
tocAnyMagic(d) ==
  Bind(readBytes(readUint32(d, 0).d, 4), LAMBDA r2 :
  Bind(readUint32(seek(r2.d, 4 + 4, SeekCurrent), 0), LAMBDA r4 :
  Bind(tocEntries([r4.d EXCEPT !.oMap = EmptyMap], r4.v, 0, 0), LAMBDA d5 :
    [d |-> d5, err |-> d5.err])))

toc(d) ==
  Bind(readBytes(readUint32(d, 0).d, 4), LAMBDA r2 :
    IF r2.v # <<254, 255, 255, 255>> THEN [d |-> r2.d, err |-> "bad TOC"]
    ELSE
  Bind(readUint32(seek(r2.d, 4 + 4, SeekCurrent), 0), LAMBDA r4 :
  Bind(tocEntries([r4.d EXCEPT !.oMap = EmptyMap], r4.v, 0, 0), LAMBDA d5 :
    [d |-> d5, err |-> d5.err])))

decodeString(d) ==
  Bind(readLenAndType(d), LAMBDA h :
    IF dataType(h.typeMask) # bmk_string
      THEN [d |-> h.d, v |-> << >>, err |-> "unexpected string type"]
    ELSE
  Bind(readBytes(h.d, h.len), LAMBDA r :
    [d |-> r.d, v |-> r.v, err |-> NoErr]))

decodeBytes(d) ==
  Bind(readLenAndType(d), LAMBDA h :
    IF dataType(h.typeMask) # bmk_data
      THEN [d |-> h.d, v |-> << >>, err |-> "unexpected byte type"]
    ELSE
  Bind(readBytes(h.d, h.len), LAMBDA r :
    [d |-> r.d, v |-> r.v, err |-> r.d.err]))

decodeUint32(d) ==
  Bind(readLenAndType(d), LAMBDA h :
    IF dataType(h.typeMask) # bmk_number
      THEN [d |-> h.d, v |-> 0, err |-> "unexpected number type"]
    ELSE
  Bind(readUint32(h.d, 0), LAMBDA r :
    [d |-> r.d, v |-> r.v, err |-> r.d.err]))

decodeInt64(d) ==
  Bind(readLenAndType(d), LAMBDA h :
    IF dataType(h.typeMask) # bmk_number
      THEN [d |-> h.d, v |-> U64(0), err |-> "unexpected number type"]
    ELSE
  Bind(read(h.d, 8), LAMBDA r :
    [d |-> r.d, v |-> IF r.ok THEN Uint64(r.bytes) ELSE U64(0),
     err |-> r.d.err]))

decodeBool(d) ==
  Bind(readLenAndType(d), LAMBDA h :
    IF dataType(h.typeMask) # bmk_boolean
      THEN [d |-> h.d, v |-> FALSE, err |-> "unexpected boolean type"]
    ELSE IF dataSubType(h.typeMask) \notin
              {bmk_boolean_st_false, bmk_boolean_st_true}
      THEN [d |-> h.d, v |-> FALSE, err |-> "unexpected boolean subtype"]
    ELSE [d |-> h.d, v |-> dataSubType(h.typeMask) = bmk_boolean_st_true,
          err |-> h.d.err])

decodeTime(d) ==
  Bind(readLenAndType(d), LAMBDA h :
    IF dataType(h.typeMask) # bmk_date
      THEN [d |-> h.d, v |-> ZeroTime, err |-> "unexpected date type"]
    ELSE
  Bind(read(h.d, 8), LAMBDA r :
    [d |-> r.d, v |-> TimeOfFloat64BE(IF r.ok THEN r.bytes ELSE Zeros(8)),
     err |-> r.d.err]))

\* n consecutive d.read(&items[i])
RECURSIVE readUint32s(_, _)
readUint32s(d, n) ==
  IF n = 0 THEN [d |-> d, v |-> << >>]
  ELSE Bind(readUint32(d, 0), LAMBDA r :
       Bind(readUint32s(r.d, n - 1), LAMBDA rest :
         [d |-> rest.d, v |-> <<r.v>> \o rest.v]))

\* the second loop of decodeStringSlice: s is returned as filled so far
RECURSIVE decodeStrings(_, _, _, _)
decodeStrings(d, offsets, i, s) ==
  IF i > Len(offsets) THEN [d |-> d, v |-> s, err |-> NoErr]
  ELSE Bind(decodeString(seek(d, d.headerSize + offsets[i], SeekStart)),
            LAMBDA r :
              IF r.err # NoErr
                THEN [d |-> r.d, v |-> [s EXCEPT ![i] = r.v], err |-> r.err]
                ELSE decodeStrings(r.d, offsets, i + 1,
                                   [s EXCEPT ![i] = r.v]))

decodeStringSlice(d) ==
  Bind(readLenAndType(d), LAMBDA h :
    IF dataType(h.typeMask) # bmk_array
      THEN [d |-> h.d, v |-> << >>, err |-> "unexpected array type"]
    ELSE
  Bind(readUint32s(h.d, h.len \div 4), LAMBDA offs :
    decodeStrings(offs.d, offs.v, 1, [i \in 1..(h.len \div 4) |-> << >>])))

decodeUint32Slice(d) ==
  Bind(readLenAndType(d), LAMBDA h :
    IF dataType(h.typeMask) # bmk_array
      THEN [d |-> h.d, v |-> << >>, err |-> "unexpected array type"]
    ELSE
  Bind(readUint32s(h.d, h.len \div 4), LAMBDA items :
    [d |-> items.d, v |-> items.v, err |-> items.d.err]))

(***************************************************************************)
(* AliasFromReader.  One pass of the `for key, offset := range d.oMap`     *)
(* loop is a keyStep: it yields the decoder after the pass and, when the   *)
(* pass executes `return d.b, err`, ret = TRUE and that err.               *)
(***************************************************************************)
\* `d.b.F, err = d.decodeX(); if err != nil { d.err = msg; return d.b, d.err }`
assignOrReturn(r, field, msg) ==
  IF r.err # NoErr
    THEN [d |-> [r.d EXCEPT !.b[field] = r.v, !.err = msg],
          ret |-> TRUE, err |-> msg]
    ELSE [d |-> [r.d EXCEPT !.b[field] = r.v], ret |-> FALSE, err |-> NoErr]

\* lines 53-60: dereference every CNID offset
RECURSIVE decodeCnids(_, _, _)
decodeCnids(d, offsets, i) ==
  IF i > Len(offsets) THEN [d |-> d, ret |-> FALSE, err |-> NoErr]
  ELSE Bind(decodeInt64(seek(d, d.headerSize + offsets[i], SeekStart)),
            LAMBDA r :
              IF r.err # NoErr
                THEN [d |-> r.d, ret |-> TRUE,
                      err |-> "failed to read the CNID path in array"]
                ELSE decodeCnids([r.d EXCEPT !.b.CNIDPath[i] = r.v],
                                 offsets, i + 1))

\* a default case that fails on a key the reader does not know
keyDefaultFatal(d, key) ==
  [d |-> [d EXCEPT !.err = "unknown key"], ret |-> TRUE, err |-> "unknown key"]

\* the default case: a key the reader does not know is skipped
keyDefault(d, key) == [d |-> d, ret |-> FALSE, err |-> NoErr]

keyStep(d, key) ==
  LET at == seek(d, d.oMap[key], SeekStart)
  IN CASE key = KBookmarkPath ->
            assignOrReturn(decodeStringSlice(at), "Path",
                           "failed to decode the file path")
       [] key = KBookmarkCNIDPath ->
            Bind(decodeUint32Slice(at), LAMBDA r :
              IF r.err # NoErr
                THEN [d |-> [r.d EXCEPT !.err =
                                   "failed to decode the CNID path offsets"],
                      ret |-> TRUE,
                      err |-> "failed to decode the CNID path offsets"]
                ELSE decodeCnids(
                       [r.d EXCEPT !.b.CNIDPath =
                                     [i \in 1..Len(r.v) |-> U64(0)]],
                       r.v, 1))
       [] key = KBookmarkVolumeProperties ->
            assignOrReturn(decodeBytes(at), "VolumeProperties",
                           "failed to decode the volume properties")
       [] key = KBookmarkFileProperties ->
            assignOrReturn(decodeBytes(at), "FileProperties",
                           "failed to decode the file properties")
       [] key = KBookmarkContainingFolder ->
            assignOrReturn(decodeUint32(at), "ContainingFolderIDX",
                           "failed to decode the containing folder IDX")
       [] key = KBookmarkCreationOptions ->
            assignOrReturn(decodeUint32(at), "CreationOptions",
                           "failed to decode the creation options")
       [] key = KBookmarkFileCreationDate ->
            assignOrReturn(decodeTime(at), "FileCreationDate",
                           "failed to decode the file creation date")
       [] key = KBookmarkFileID ->
            assignOrReturn(decodeUint32(at), "CNID",
                           "failed to decode the file CNID")
       [] key = KBookmarkVolumeURL ->
            Bind(readUint32(at, 0), LAMBDA r1 :
            Bind(readBytes(seek(r1.d, 4, SeekCurrent), r1.v), LAMBDA r3 :
              IF r3.d.err # NoErr
                THEN [d |-> [r3.d EXCEPT
                               !.err = "failed to decode the volume url"],
                      ret |-> FALSE, err |-> NoErr]
                ELSE [d |-> [r3.d EXCEPT !.b.VolumeURL = r3.v],
                      ret |-> FALSE, err |-> NoErr]))
       [] key = KBookmarkVolumeName ->
            assignOrReturn(decodeString(at), "VolumeName",
                           "failed to decode the volume name")
       [] key = KBookmarkVolumePath ->
            assignOrReturn(decodeString(at), "VolumePath",
                           "failed to decode the volume path")
       [] key = KBookmarkFullFileName ->
            assignOrReturn(decodeString(at), "Filename",
                           "failed to decode the full filename")
       [] key = KBookmarkUserName ->
            assignOrReturn(decodeString(at), "UserName",
                           "failed to decode the user name")
       [] key = KBookmarkVolumeSize ->
            assignOrReturn(decodeInt64(at), "VolumeSize",
                           "failed to decode the volume size")
       [] key = KBookmarkUID ->
            assignOrReturn(decodeUint32(at), "UID",
                           "failed to decode the UID")
       [] key = KBookmarkVolumeUUID ->
            assignOrReturn(decodeString(at), "VolumeUUID",
                           "failed to decode the volume uuid")
       [] key = KBookmarkVolumeCreationDate ->
            assignOrReturn(decodeTime(at), "VolumeCreationDate",
                           "failed to decode the volume creation date")
       [] key = KBookmarkVolumeIsRoot ->
            assignOrReturn(decodeBool(at), "VolumeIsRoot",
                           "failed to decode the volume root status")
       [] key = KBookmarkWasFileReference ->
            assignOrReturn(decodeBool(at), "WasFileReference",
                           "failed to decode the file reference status")
       [] OTHER -> keyDefault(d, key)

\* what AliasFromReader returns, with what the decoder had established:
\* its offset map, the position it read the TOC from, the set of keys visited
Returned(isNil, b, err, d, tocPos, visited) ==
  [isNil |-> isNil, b |-> b, err |-> err, oMap |-> d.oMap,
   headerSize |-> d.headerSize, tocPos |-> tocPos, visited |-> visited]

RECURSIVE rangeKeys(_, _, _, _)
rangeKeys(d, keys, tocPos, visited) ==
  IF keys = << >> THEN Returned(FALSE, d.b, d.err, d, tocPos, visited)
  ELSE Bind(keyStep(d, Head(keys)), LAMBDA r :
         IF r.ret
           THEN Returned(FALSE, r.d.b, r.err, r.d, tocPos,
                         visited \cup {Head(keys)})
           ELSE Eval(r, rangeKeys(r.d, Tail(keys), tocPos,
                                  visited \cup {Head(keys)})))

\* an iteration order of a Go map: the sorted keys started at position rot,
\* in either direction
Reverse(s) == [i \in 1..Len(s) |-> s[Len(s) + 1 - i]]

Rotate(s, r) ==
  IF s = << >> THEN s
  ELSE LET k == r % Len(s)
       IN SubSeq(s, k + 1, Len(s)) \o SubSeq(s, 1, k)

KeyOrder(keySet, rot, down) ==
  LET up == SortedKeys(keySet)
  IN Rotate(IF down THEN Reverse(up) ELSE up, rot)

(***************************************************************************)
(* bookmark_data.go: offsetMap.Bytes as it runs: the keys are collected by *)
(* ranging over the map, in whatever order the runtime yields them, and    *)
(* then sorted with sort.Ints.                                             *)
(***************************************************************************)
RECURSIVE InsertInt(_, _)
InsertInt(sorted, k) ==
  IF sorted = << >> THEN <<k>>
  ELSE IF k <= Head(sorted) THEN <<k>> \o sorted
  ELSE <<Head(sorted)>> \o InsertInt(Tail(sorted), k)

RECURSIVE SortFrom(_, _)
SortFrom(keys, sorted) ==
  IF keys = << >> THEN sorted
  ELSE SortFrom(Tail(keys), InsertInt(sorted, Head(keys)))

\* the keys left in the order the range yielded them
RangeOrderInts(keys) == keys

\* sort.Ints(keys)
SortInts(keys) == SortFrom(keys, << >>)

\* lines 327-359, for the order `keys` in which the range yields the keys
offsetMapBytesRanged(oMap, keys) ==
  PutUint32((3 * 4) + (Len(keys) * (3 * 4)))
  \o <<254, 255, 255, 255>>
  \o PutUint32(1)
  \o PutUint32(0)
  \o PutUint32(Len(keys))
  \o TocEntries(oMap, SortInts(keys))

\* Write, for the order in which the range over oMap yields the keys
WriteRanged(v, rot, down) ==
  Bind(WriteBody(v), LAMBDA st :
    Assemble(st, offsetMapBytesRanged(st.oMap,
                                      KeyOrder(DOMAIN st.oMap, rot, down))))

AliasFromReader(data, rot, down) ==
  Bind(aliasHeader(newBookmarkDecoder(data)), LAMBDA h :
    IF h.err # NoErr THEN Returned(TRUE, ZeroData, h.err, h.d, 0, {})
    ELSE
  Bind(readUint32(h.d, 0), LAMBDA r1 :
  Bind(seek([r1.d EXCEPT !.tocOffset = r1.v], r1.v - 4, SeekCurrent),
       LAMBDA d2 :
  Bind(toc(d2), LAMBDA t :
    IF t.err # NoErr
      THEN Returned(TRUE, ZeroData, "failed to read the TOC", t.d,
                    d2.rpos, {})
      ELSE rangeKeys(t.d, KeyOrder(DOMAIN t.d.oMap, rot, down),
                     d2.rpos, {})))))

(***************************************************************************)
(* The values a caller hands to Write.                                     *)
(***************************************************************************)
StrU == <<117>>
StrFile == <<102, 46, 119, 97, 118>>
StrRoot == <<Slash>>
StrVol == <<Slash, 86>>
StrRootURL == <<102, 105, 108, 101, 58, 47, 47, 47>>
StrVolURL == <<102, 105, 108, 101, 58, 47, 47, 47, 86, 47>>
StrHD == <<72, 68>>
StrUUID == <<65, 66, 45, 49, 50>>
Props24 == <<1, 0, 0, 0, 0, 0, 0, 0, 15>> \o Zeros(15)

PathItems == {StrU, StrFile}

RECURSIVE SeqsUpTo(_, _)
SeqsUpTo(S, n) ==
  IF n = 0 THEN {<< >>}
  ELSE LET shorter == SeqsUpTo(S, n - 1)
       IN shorter \cup {Append(p, x) : p \in {q \in shorter : Len(q) = n - 1},
                                        x \in S}

Paths == SeqsUpTo(PathItems, MaxPathLen)

CnidPaths == {[i \in 1..n |-> U64(100 + i)] : n \in 0..MaxCnidLen}

Volumes ==
  {[VolumePath |-> StrRoot, VolumeURL |-> StrRootURL, VolumeName |-> StrHD,
    VolumeUUID |-> << >>, VolumeSize |-> U64(42),
    VolumeCreationDate |-> At(0), VolumeProperties |-> Props24],
   [VolumePath |-> StrVol, VolumeURL |-> StrVolURL, VolumeName |-> << >>,
    VolumeUUID |-> StrUUID, VolumeSize |-> U64(0),
    VolumeCreationDate |-> ZeroTime, VolumeProperties |-> << >>]}

FileInfos ==
  {[FileCreationDate |-> ZeroTime, FileProperties |-> << >>,
    ContainingFolderIDX |-> 0, WasFileReference |-> FALSE, CNID |-> 0,
    UID |-> 0, Filename |-> << >>],
   [FileCreationDate |-> At(4), FileProperties |-> Props24,
    ContainingFolderIDX |-> 1, WasFileReference |-> FALSE, CNID |-> 0,
    UID |-> 501, Filename |-> StrFile],
   [FileCreationDate |-> At(3), FileProperties |-> <<1, 2, 3>>,
    ContainingFolderIDX |-> 2, WasFileReference |-> TRUE, CNID |-> 7,
    UID |-> 99, Filename |-> StrU]}

MakeData(path, cnids, root, opts, user, vol, fi) ==
  [FileSystemType |-> << >>, Path |-> path, CNIDPath |-> cnids,
   FileCreationDate |-> fi.FileCreationDate,
   FileProperties |-> fi.FileProperties, TypeData |-> << >>,
   ContainingFolderIDX |-> fi.ContainingFolderIDX,
   VolumePath |-> vol.VolumePath, VolumeIsRoot |-> root,
   VolumeURL |-> vol.VolumeURL, VolumeName |-> vol.VolumeName,
   VolumeSize |-> vol.VolumeSize,
   VolumeCreationDate |-> vol.VolumeCreationDate,
   VolumeUUID |-> vol.VolumeUUID, VolumeProperties |-> vol.VolumeProperties,
   CreationOptions |-> opts, WasFileReference |-> fi.WasFileReference,
   UserName |-> user, CNID |-> fi.CNID, UID |-> fi.UID,
   Filename |-> fi.Filename]

\* values in which only Path, VolumePath and VolumeURL are set
UnsetFile ==
  [FileCreationDate |-> ZeroTime, FileProperties |-> << >>,
   ContainingFolderIDX |-> 0, WasFileReference |-> FALSE, CNID |-> 0,
   UID |-> 0, Filename |-> << >>]

BareVolumes ==
  {[VolumePath |-> StrRoot, VolumeURL |-> StrRootURL, VolumeName |-> << >>,
    VolumeUUID |-> << >>, VolumeSize |-> U64(0),
    VolumeCreationDate |-> ZeroTime, VolumeProperties |-> << >>],
   [VolumePath |-> StrVol, VolumeURL |-> StrVolURL, VolumeName |-> << >>,
    VolumeUUID |-> << >>, VolumeSize |-> U64(0),
    VolumeCreationDate |-> ZeroTime, VolumeProperties |-> << >>]}

SparseInputs ==
  {MakeData(path, << >>, FALSE, 0, << >>, vol, UnsetFile) :
     path \in Paths \ {<< >>}, vol \in BareVolumes}

Inputs ==
  {MakeData(path, cnids, root, opts, user, vol, fi) :
     path \in Paths, cnids \in CnidPaths, root \in BOOLEAN,
     opts \in {512, 1024}, user \in {<< >>, StrU}, vol \in Volumes,
     fi \in FileInfos}
  \cup SparseInputs

(***************************************************************************)
(* The state machine: a caller builds a BookmarkData (b), calls Write on   *)
(* an in-memory buffer (data), and AliasFromReader reads the buffer back.  *)
(*   in    the value as the caller built it                                *)
(*   b     the value, which Write updates (TypeData)                       *)
(*   wr    the pieces Write assembled its output from                      *)
(*   result / prev   what the last and the previous AliasFromReader        *)
(*         returned                                                        *)
(***************************************************************************)
VARIABLES pc, in, b, data, wr, result, prev, change

vars == <<pc, in, b, data, wr, result, prev, change>>

NoResult == Returned(TRUE, ZeroData, NoErr, newBookmarkDecoder(<< >>), 0, {})

NoWrite ==
  [panic |-> FALSE, bytes |-> << >>, header |-> << >>, tocField |-> << >>,
   body |-> << >>, toc |-> << >>, oMap |-> EmptyMap, emits |-> << >>,
   vals |-> EmptyMap]

\* how the bytes handed to the reader differ from what Write produced
Change(what, key, arg) == [what |-> what, key |-> key, arg |-> arg]

NoChange == Change("none", 0, << >>)

InitWith(inputs) ==
  /\ pc = "new"
  /\ in \in inputs
  /\ b = in
  /\ data = << >>
  /\ wr = NoWrite
  /\ result = NoResult
  /\ prev = NoResult
  /\ change = NoChange

Init == InitWith(Inputs)

\* b.Write(w) on a bytes.Buffer
DoWrite ==
  /\ pc = "new"
  /\ \E w \in {Write(b)} :
       /\ wr' = w
       /\ IF w.panic
            THEN /\ pc' = "panic"
                 /\ UNCHANGED <<b, data>>
            ELSE /\ pc' = "written"
                 /\ b' = [b EXCEPT !.TypeData = prepareTypeData(b)]
                 /\ data' = w.bytes
  /\ UNCHANGED <<in, result, prev, change>>

\* AliasFromReader(bytes.NewReader(data)), for an iteration order of d.oMap
DoRead ==
  /\ pc \in {"written", "changed"}
  /\ \E rot \in 0..MaxRot, down \in BOOLEAN :
       result' = AliasFromReader(data, rot, down)
  /\ prev' = result
  /\ pc' = IF pc = "written" THEN "read" ELSE "reread"
  /\ UNCHANGED <<in, b, data, wr, change>>

\* a second b.Write(w) on the same value, into a fresh bytes.Buffer; the
\* range over oMap yields the keys in some order, kept in `change`
DoWriteAgain ==
  /\ pc = "written"
  /\ \E rot \in 0..MaxRot, down \in BOOLEAN :
       \E w \in {WriteRanged(b, rot, down)} :
         /\ wr' = w
         /\ change' = Change("rangeOrder", rot,
                             KeyOrder(DOMAIN w.oMap, rot, down))
  /\ pc' = "rewritten"
  /\ UNCHANGED <<in, b, data, result, prev>>

Next == DoWrite \/ DoRead \/ DoWriteAgain

Spec == Init /\ [][Next]_vars

(***************************************************************************)
(* Inputs that Write did not produce: the written bytes with one change.   *)
(* File positions are 0-based, as in the Go code.                          *)
(***************************************************************************)
ReplaceAt(bytes, pos, new) ==
  [i \in 1..Len(bytes) |->
     IF i > pos /\ i <= pos + Len(new) THEN new[i - pos] ELSE bytes[i]]

\* the n bytes at file position pos
BytesAt(bytes, pos, n) == SubSeq(bytes, pos + 1, pos + n)

BodyStart == Len(wr.header) + Len(wr.tocField)

TocStart == BodyStart + Len(wr.body)

ValuePos(key) == BodyStart + wr.oMap[key]

\* the keys AliasFromReader has a case for
ReaderKeys ==
  {KBookmarkPath, KBookmarkCNIDPath, KBookmarkVolumeProperties,
   KBookmarkFileProperties, KBookmarkContainingFolder,
   KBookmarkCreationOptions, KBookmarkFileCreationDate, KBookmarkFileID,
   KBookmarkVolumeURL, KBookmarkVolumeName, KBookmarkVolumePath,
   KBookmarkFullFileName, KBookmarkUserName, KBookmarkVolumeSize,
   KBookmarkUID, KBookmarkVolumeUUID, KBookmarkVolumeCreationDate,
   KBookmarkVolumeIsRoot, KBookmarkWasFileReference}

\* the kind byte (bits 8..15 of the type mask) of the typed value at pos
KindAt(bytes, pos) == bytes[pos + 6]

BadMagics == {<<255, 255, 255, 255>>, <<0, 0, 0, 0>>, <<254, 255, 255, 0>>}

WrongKinds == {1, 3, 10}

ExtraKeys ==
  {57344, KBookmarkURLLengths, 61439, KBookmarkFileID,
   KBookmarkWasFileReference}

TamperInputs ==
  {x \in Inputs :
     /\ x.Path \in {<< >>, <<StrU, StrFile>>}
     /\ Len(x.CNIDPath) = Len(x.Path)
     /\ x.CreationOptions = 1024
     /\ x.UID = 501}

\* the 4 bytes after the TOC size field are overwritten
CorruptTocMagic ==
  /\ pc = "read"
  /\ \E m \in BadMagics :
       /\ data' = ReplaceAt(data, TocStart + 4, m)
       /\ change' = Change("tocMagic", 0, m)
  /\ pc' = "changed"
  /\ UNCHANGED <<in, b, wr, result, prev>>

\* one of the header fields aliasHeader looks at, or skips, is overwritten
CorruptHeader ==
  /\ pc = "read"
  /\ \E f \in {<<0, <<98, 111, 111, 109>>>>, <<8, <<77, 97, 114, 107>>>>,
               <<16, PutUint32(48)>>, <<20, PutUint32(48)>>} :
       /\ data' = ReplaceAt(data, f[1], f[2])
       /\ change' = Change("header", f[1], f[2])
  /\ pc' = "changed"
  /\ UNCHANGED <<in, b, wr, result, prev>>

\* the kind byte of the typed value recorded for a key is overwritten
CorruptKind ==
  /\ pc = "read"
  /\ \E key \in DOMAIN wr.oMap :
       \E k \in WrongKinds \ {KindAt(data, ValuePos(key))} :
         /\ data' = ReplaceAt(data, ValuePos(key) + 5, <<k>>)
         /\ change' = Change("kind", key, <<k>>)
  /\ pc' = "changed"
  /\ UNCHANGED <<in, b, wr, result, prev>>

\* the length prefix of a String, Data or URL value points past the end
CorruptLength ==
  /\ pc = "read"
  /\ \E key \in DOMAIN wr.oMap :
       /\ KindAt(data, ValuePos(key)) \in {1, 2, 9}
       /\ data' = ReplaceAt(data, ValuePos(key), PutUint32(Len(data)))
       /\ change' = Change("length", key, PutUint32(Len(data)))
  /\ pc' = "changed"
  /\ UNCHANGED <<in, b, wr, result, prev>>

\* the input ends early
Truncate ==
  /\ pc = "read"
  /\ \E n \in {0, 6, 30, BodyStart, TocStart + 2, TocStart + 30,
               Len(data) - 1} :
       /\ data' = SubSeq(data, 1, n)
       /\ change' = Change("truncate", n, << >>)
  /\ pc' = "changed"
  /\ UNCHANGED <<in, b, wr, result, prev>>

\* one more TOC entry is appended: key -> the typed value at body offset
\* target; the entry count and the two sizes that cover the TOC follow
AddTocEntry ==
  /\ pc = "read"
  /\ \E key \in ExtraKeys, i \in 1..Len(wr.emits) :
       LET target == wr.emits[i]
           n == Cardinality(DOMAIN wr.oMap)
           d1 == ReplaceAt(data, 24, PutUint32(4 + Len(wr.body)
                                               + Len(wr.toc) + 12))
           d2 == ReplaceAt(d1, TocStart, PutUint32(12 + (12 * (n + 1))))
           d3 == ReplaceAt(d2, TocStart + 16, PutUint32(n + 1))
       IN /\ data' = d3 \o PutUint32(key) \o PutUint32(target + 4)
                        \o PutUint32(0)
          /\ change' = Change("addEntry", key, <<target>>)
  /\ pc' = "changed"
  /\ UNCHANGED <<in, b, wr, result, prev>>

\* the declared length of the Path or CNIDPath array is raised by 1, 2 or 3
CorruptArrayLength ==
  /\ pc = "read"
  /\ \E key \in {KBookmarkPath, KBookmarkCNIDPath} \cap DOMAIN wr.oMap,
        delta \in 1..3 :
       \E len \in {Uint32(BytesAt(data, ValuePos(key), 4)) + delta} :
         /\ data' = ReplaceAt(data, ValuePos(key), PutUint32(len))
         /\ change' = Change("arrayLength", key, <<len>>)
  /\ pc' = "changed"
  /\ UNCHANGED <<in, b, wr, result, prev>>

InitT == InitWith(TamperInputs)

NextT ==
  \/ DoWrite
  \/ DoRead
  \/ CorruptTocMagic
  \/ CorruptHeader
  \/ CorruptKind
  \/ CorruptLength
  \/ Truncate
  \/ AddTocEntry
  \/ CorruptArrayLength

SpecT == InitT /\ [][NextT]_vars

(***************************************************************************)
(* offsetMap.Bytes on its own: any map over a pool of keys.                *)
(***************************************************************************)
KeyPool ==
  {KBookmarkCreationOptions, KBookmarkPath, KBookmarkFullFileName,
   KBookmarkTOCPath, KBookmarkURLLengths}

OffsetMaps == UNION {[S -> {0, 12}] : S \in SUBSET KeyPool}

InitM ==
  \/ Init
  \/ /\ pc = "map"
     /\ wr \in {[NoWrite EXCEPT !.oMap = m] : m \in OffsetMaps}
     /\ in = ZeroData
     /\ b = ZeroData
     /\ data = << >>
     /\ result = NoResult
     /\ prev = NoResult
     /\ change = NoChange

\* toc := oMap.Bytes()
DoBytes ==
  /\ pc = "map"
  /\ wr' = [wr EXCEPT !.toc = offsetMapBytes(wr.oMap)]
  /\ pc' = "bytes"
  /\ UNCHANGED <<in, b, data, result, prev, change>>

NextM == DoWrite \/ DoRead \/ DoBytes

SpecM == InitM /\ [][NextM]_vars

(***************************************************************************)
(* Reading a serialised TOC back from its bytes.                           *)
(***************************************************************************)
TocCount(tb) == Uint32(SubSeq(tb, 17, 20))

TocKeyAt(tb, i) ==
  Uint32(SubSeq(tb, 20 + (12 * (i - 1)) + 1, 20 + (12 * (i - 1)) + 4))

TocOffsetAt(tb, i) ==
  Uint32(SubSeq(tb, 20 + (12 * (i - 1)) + 5, 20 + (12 * (i - 1)) + 8))

Written == pc \in {"written", "read"}

RoundTripFields ==
  {"Path", "CNIDPath", "FileCreationDate", "FileProperties",
   "ContainingFolderIDX", "VolumePath", "VolumeIsRoot", "VolumeURL",
   "VolumeName", "VolumeUUID", "VolumeSize", "VolumeCreationDate",
   "VolumeProperties", "CreationOptions", "WasFileReference", "UserName",
   "CNID", "UID", "Filename"}

\* the kind byte section 3.2 of the specification assigns to each key
ExpectedKind(key) ==
  CASE key \in {KBookmarkPath, KBookmarkCNIDPath} -> 6
    [] key \in {KBookmarkFileProperties, KBookmarkVolumeProperties} -> 2
    [] key \in {KBookmarkFileID, KBookmarkVolumeSize,
                KBookmarkContainingFolder, KBookmarkUID,
                KBookmarkCreationOptions} -> 3
    [] key \in {KBookmarkFileCreationDate, KBookmarkVolumeCreationDate} -> 4
    [] key \in {KBookmarkVolumeIsRoot, KBookmarkWasFileReference} -> 5
    [] key = KBookmarkVolumeURL -> 9
    [] OTHER -> 1

(***************************************************************************)
(* C1  Round trip.  Whatever value Write is given, AliasFromReader on the  *)
(* written bytes returns a value equal to it on every field of section     *)
(* 3.2.  The code does not do this: Write always emits 1024 for            *)
(* CreationOptions, never emits WasFileReference or the file id, ...       *)
(***************************************************************************)
C1_RoundTrip ==
  pc = "read" =>
    /\ ~result.isNil
    /\ \A f \in RoundTripFields : result.b[f] = in[f]

(***************************************************************************)
(* C2  Write never panics, whatever the lengths of Path and CNIDPath, and  *)
(* the bytes it wrote are read back with a nil error.  The code panics     *)
(* when CNIDPath is longer than Path.                                      *)
(***************************************************************************)
C2_WriteThenReadSucceeds ==
  /\ pc # "panic"
  /\ pc = "read" => result.err = NoErr

(***************************************************************************)
(* C3  No partial value on failure: when AliasFromReader returns a non-nil *)
(* error the BookmarkData it returns is nil.  The code returns d.b from    *)
(* every failing key case.                                                 *)
(***************************************************************************)
C3_NoPartialValue ==
  (pc \in {"read", "reread"} /\ result.err # NoErr) => result.isNil

(***************************************************************************)
(* C4  Corrupt TOC rejection: when the header is valid and the TOC magic   *)
(* is not FE FF FF FF, AliasFromReader returns a non-nil error and a nil   *)
(* BookmarkData and has visited no key.                                    *)
(***************************************************************************)
C4_BadTocRejected ==
  (pc = "reread" /\ change.what = "tocMagic") =>
    /\ result.err # NoErr
    /\ result.isNil
    /\ result.visited = {}

C4_Witness ==
  /\ pc = "reread"
  /\ change.what = "tocMagic"
  /\ change.arg = <<255, 255, 255, 255>>
  /\ prev.err = NoErr
  /\ result.headerSize = Len(wr.header)

(***************************************************************************)
(* C5  Wrong kind is fatal: for every key the reader decodes, when the     *)
(* typed value at the key's offset does not have the kind section 3.2      *)
(* assigns to the key, AliasFromReader returns a non-nil error.  The       *)
(* VolumeURL case never looks at the type mask.                            *)
(***************************************************************************)
C5_WrongKindIsFatal ==
  (/\ pc = "reread"
   /\ change.what \in {"kind", "addEntry"}
   /\ change.key \in ReaderKeys
   /\ change.key \in DOMAIN result.oMap
   /\ KindAt(data, result.oMap[change.key]) # ExpectedKind(change.key))
  => result.err # NoErr

(***************************************************************************)
(* C6  Ignore-unknown: one more TOC entry, with a key the reader does not  *)
(* recognise and an offset that points at a well-formed String, leaves     *)
(* the decoded value and the nil error unchanged.                          *)
(***************************************************************************)
C6_Case ==
  /\ pc = "reread"
  /\ change.what = "addEntry"
  /\ change.key \notin ReaderKeys
  /\ KindAt(data, BodyStart + change.arg[1]) = 1

C6_UnknownKeyIgnored ==
  C6_Case =>
    /\ result.err = NoErr
    /\ prev.err = NoErr
    /\ result.isNil = prev.isNil
    /\ result.b = prev.b

C6_Witness ==
  /\ C6_Case
  /\ change.key = 57344
  /\ change.key \in result.visited
  /\ result.b.Path = <<StrU, StrFile>>

(***************************************************************************)
(* C7  TOC sort invariant: in the bytes offsetMap.Bytes produces, the      *)
(* entry keys are strictly ascending and every recorded key appears        *)
(* exactly once.                                                           *)
(***************************************************************************)
C7_TocSorted ==
  (Written \/ pc = "bytes") =>
    LET n == TocCount(wr.toc)
    IN /\ n = Cardinality(DOMAIN wr.oMap)
       /\ Len(wr.toc) = 20 + (12 * n)
       /\ {TocKeyAt(wr.toc, i) : i \in 1..n} = DOMAIN wr.oMap
       /\ \A i \in 1..(n - 1) : TocKeyAt(wr.toc, i) < TocKeyAt(wr.toc, i + 1)

C7_Witness ==
  /\ pc = "written"
  /\ KBookmarkTOCPath \in DOMAIN wr.oMap
  /\ KBookmarkFullFileName \in DOMAIN wr.oMap
  /\ TocKeyAt(wr.toc, 1) = KBookmarkPath
  /\ wr.oMap[KBookmarkCreationOptions] = 0

(***************************************************************************)
(* C8  Alignment: every body offset recorded in the TOC (stored offset     *)
(* minus 4) is a multiple of 4, and so is the body length at the start of  *)
(* every typed value.                                                      *)
(***************************************************************************)
C8_Aligned ==
  Written =>
    /\ \A i \in 1..TocCount(wr.toc) : (TocOffsetAt(wr.toc, i) - 4) % 4 = 0
    /\ \A i \in 1..Len(wr.emits) : wr.emits[i] % 4 = 0

C8_Witness ==
  /\ pc = "written"
  /\ in.VolumeIsRoot
  /\ in.Path = <<StrU, StrFile>>
  /\ in.UserName = StrU
  /\ in.FileProperties = <<1, 2, 3>>
  /\ wr.oMap[KBookmarkUserName] = wr.oMap[KBookmarkFullFileName] - 12

(***************************************************************************)
(* C9  Symmetric offset convention: for every key Write records, the file  *)
(* position AliasFromReader computes is where the value Write emitted for  *)
(* that key begins, and the position the reader seeks to for the TOC is    *)
(* where the TOC begins.                                                   *)
(***************************************************************************)
C9_OffsetsSymmetric ==
  pc = "read" =>
    /\ DOMAIN result.oMap = DOMAIN wr.oMap
    /\ \A k \in DOMAIN wr.oMap :
         /\ result.oMap[k] = Len(wr.header) + Len(wr.tocField) + wr.oMap[k]
         /\ BytesAt(data, result.oMap[k], Len(wr.vals[k])) = wr.vals[k]
    /\ result.tocPos = Len(wr.header) + Len(wr.tocField) + Len(wr.body)
    /\ BytesAt(data, result.tocPos, Len(wr.toc)) = wr.toc

C9_Witness ==
  /\ pc = "read"
  /\ ~in.VolumeIsRoot
  /\ Len(in.Path) = 2
  /\ result.oMap[KBookmarkCreationOptions] = 60
  /\ result.oMap[KBookmarkFullFileName] > 60

(***************************************************************************)
(* C10  Header layout.  As claimed: the output is a 48-byte header, the    *)
(* body, the TOC, and the 4 bytes at file offset 44 hold body size + 4.    *)
(***************************************************************************)
C10_Header48 ==
  pc = "written" =>
    /\ Len(data) = 48 + Len(wr.body) + Len(wr.toc)
    /\ BytesAt(data, 44, 4) = PutUint32(Len(wr.body) + 4)

(***************************************************************************)
(* C10 as amended: the output is a 60-byte header (56 bytes, the size the  *)
(* header declares twice, then the 4-byte field the reader uses to locate  *)
(* the TOC), the body, the TOC; the 4 bytes at file offset 56 hold body    *)
(* size + 4.                                                               *)
(***************************************************************************)
C10_Header60 ==
  pc = "written" =>
    /\ Len(data) = 60 + Len(wr.body) + Len(wr.toc)
    /\ BytesAt(data, 16, 4) = PutUint32(56)
    /\ BytesAt(data, 20, 4) = PutUint32(56)
    /\ BytesAt(data, 56, 4) = PutUint32(Len(wr.body) + 4)
    /\ BytesAt(data, 60, Len(wr.body)) = wr.body
    /\ BytesAt(data, 60 + Len(wr.body), Len(wr.toc)) = wr.toc

C10_Witness ==
  /\ pc = "written"
  /\ Len(in.Path) = 2
  /\ Len(wr.body) > 100
  /\ Len(wr.toc) > 100

(***************************************************************************)
(* unnamed/part_000: the AliasRecord encoder.                              *)
(* An unsigned 32-bit number of seconds is kept as its two 16-bit halves,  *)
(* a 64-bit number as its four 16-bit limbs, most significant first.  The  *)
(* encoder state is the buffer, the recorded error, and `exts`: the tag    *)
(* and buffer position of every extension, in the order it was started.    *)
(***************************************************************************)
BE16(v) == <<(v \div 256) % 256, v % 256>>

BE32(v) == BE16((v \div 65536) % 65536) \o BE16(v % 65536)

Secs(hi, lo) == [hi |-> hi, lo |-> lo]

BESecs(s) == BE16(s.hi) \o BE16(s.lo)

BELimbs(l) == BE16(l[1]) \o BE16(l[2]) \o BE16(l[3]) \o BE16(l[4])

\* uint64(s) * 65536
WidenThenShift(s) == <<0, s.hi, s.lo, 0>>

\* uint64(s * 65536), the product taken in 32 bits
ShiftThenWiden(s) == <<0, 0, s.lo, 0>>

aliasTagCarbonFolderName == 0
aliasTagCnidPath == 1
aliasTagCarbonPath == 2
aliasTagUnicodeFilename == 14
aliasTagUnicodeVolumeName == 15
aliasTagHighResVolumeCreationDate == 16
aliasTagHighResCreationDate == 17
aliasTagPosixPath == 18
aliasTagPosixPathToMountpoint == 19

Colon == 58

newAliasRecordEncoder == [buf |-> << >>, err |-> NoErr, exts |-> << >>]

\* lines 254-262: e.err is assigned only when it is already set
encoderSetError(e, err) ==
  IF err = NoErr THEN e
  ELSE IF e.err # NoErr THEN [e EXCEPT !.err = <<@, err>>]
  ELSE e

\* lines 149-152; bytes.Buffer.Write returns a nil error
write(e, bytes) == encoderSetError([e EXCEPT !.buf = @ \o bytes], NoErr)

\* lines 154-156 for a uint16 or an int16; binary.Write of a fixed-size
\* value into a bytes.Buffer returns a nil error
add16(e, v) == encoderSetError([e EXCEPT !.buf = @ \o BE16(v % 65536)], NoErr)

\* lines 154-156 for a uint32
add32(e, v) == encoderSetError([e EXCEPT !.buf = @ \o BE32(v)], NoErr)

\* lines 154-156 for a []byte, a []uint16 or a number already laid out
addBytes(e, bytes) == encoderSetError([e EXCEPT !.buf = @ \o bytes], NoErr)

\* the encoder starts the extension `tag` at the end of the buffer
startTag(e, tag) ==
  add16([e EXCEPT !.exts = Append(@, [tag |-> tag, at |-> Len(e.buf)])], tag)

\* lines 158-164
pascalString(str, size) ==
  <<Len(str) % 256>> \o str
  \o (IF size - (Len(str) + 1) > 0 THEN Zeros(size - (Len(str) + 1))
      ELSE << >>)

\* lines 166-168: uint32(t.Sub(aliasEpoch).Seconds()).  A time within 2^32
\* seconds of 1904 gives its seconds.  For a later time Sub saturates at
\* 9223372036.854775807 s, which no uint32 holds: the conversion is
\* implementation-dependent, amd64 keeping the low 32 bits of 9223372036
\* and arm64 saturating.
dateInSecs(t, arch) ==
  IF t.kind = "secs" THEN Secs(t.hi, t.lo)
  ELSE IF arch = "amd64" THEN Secs(9665, 32004)
  ELSE Secs(65535, 65535)

\* lines 250-252: every "/" becomes ":" followed by a zero byte
RECURSIVE carbonize(_)
carbonize(str) ==
  IF str = << >> THEN << >>
  ELSE (IF Head(str) = Slash THEN <<Colon, 0>> ELSE <<Head(str)>>)
       \o carbonize(Tail(str))

\* the position of the last "/" of p at or before i, 0 if there is none
RECURSIVE LastSlash(_, _)
LastSlash(p, i) ==
  IF i < 1 THEN 0
  ELSE IF p[i] = Slash THEN i
  ELSE LastSlash(p, i - 1)

\* filepath.Dir of a clean path
Dir(p) ==
  IF LastSlash(p, Len(p)) = 0 THEN <<Dot>>
  ELSE IF LastSlash(p, Len(p)) = 1 THEN <<Slash>>
  ELSE SubSeq(p, 1, LastSlash(p, Len(p)) - 1)

\* filepath.Base of a clean path
Base(p) ==
  IF p = << >> THEN <<Dot>>
  ELSE IF p = <<Slash>> THEN p
  ELSE SubSeq(p, LastSlash(p, Len(p)) + 1, Len(p))

\* lines 170-172
folderName(record) == Base(Dir(record.Path))

\* strings.Join(items, sep)
RECURSIVE stringsJoin(_, _)
stringsJoin(items, sep) ==
  IF items = << >> THEN << >>
  ELSE IF Len(items) = 1 THEN items[1]
  ELSE items[1] \o sep \o stringsJoin(Tail(items), sep)

\* utf16.Encode([]rune(str)) laid out big-endian, for ASCII strings
utf16Bytes(str) == [i \in 1..(2 * Len(str)) |-> IF i % 2 = 1 THEN 0
                                                ELSE str[i \div 2]]

\* the optional padding after a payload of `length` bytes
padOdd(e, length) == IF length % 2 = 1 THEN write(e, <<0>>) ELSE e

\* a tag, the uint16 length of the payload, the payload and its padding
stringTag(e, tag, payload) ==
  padOdd(write(add16(startTag(e, tag), Len(payload) % 65536), payload),
         Len(payload) % 65536)

\* lines 174-184
folderNameTag(e, record) ==
  stringTag(e, aliasTagCarbonFolderName, carbonize(folderName(record)))

\* lines 232-239
dateTags(e, record, arch) ==
  addBytes(add16(startTag(
    addBytes(add16(startTag(e, aliasTagHighResVolumeCreationDate), 8),
             BELimbs(WidenThenShift(dateInSecs(record.VolumeDate, arch)))),
    aliasTagHighResCreationDate), 8),
    BELimbs(ShiftThenWiden(dateInSecs(record.TargetCreation, arch))))

\* the CNIDs laid out as big-endian uint32
cnidBytes(path) ==
  [i \in 1..(4 * Len(path)) |-> BE32(path[((i - 1) \div 4) + 1])[((i - 1) % 4) + 1]]

\* lines 241-248
cnidPathTag(e, record) ==
  addBytes(add16(startTag(e, aliasTagCnidPath),
                 (Len(record.CNIDPath) * 4) % 65536),
           cnidBytes(record.CNIDPath))

\* lines 186-197
carbonPathTag(e, record) ==
  stringTag(e, aliasTagCarbonPath,
            carbonize(record.VolumeName) \o <<Colon>>
            \o carbonize(Join(record.PathItems)))

\* lines 216-222 and 224-230: the length, the count of units, the units
unicodeTag(e, tag, str) ==
  addBytes(add16(add16(startTag(e, tag),
                       (((Len(str) * 2) % 65536) + 2) % 65536),
                 ((Len(str) * 2) % 65536) \div 2),
           utf16Bytes(str))

filenameTag(e, record) ==
  unicodeTag(e, aliasTagUnicodeFilename, carbonize(record.TargetName))

volumeNameTag(e, record) ==
  unicodeTag(e, aliasTagUnicodeVolumeName, carbonize(record.VolumeName))

\* lines 199-214
posixPathTag(e, record) ==
  write(write(add16(startTag(
    stringTag(e, aliasTagPosixPath, stringsJoin(record.PathItems, <<Slash>>)),
    aliasTagPosixPathToMountpoint), 1), <<Slash>>), <<0>>)

\* lines 102-111: the application code to the volume date
prefixVolume(e, record, arch) ==
  addBytes(
    write(add16(add16(add16(write(e, record.AppCode), 0), 2), record.Kind),
          pascalString(carbonize(record.VolumeName), 28)),
    BESecs(dateInSecs(record.VolumeDate, arch)))

\* lines 113-120: the filesystem to the target creation date
prefixTarget(e, record, arch) ==
  addBytes(
    add32(addBytes(add32(add16(write(e, record.FileSystem), record.DiskType),
                         record.FolderCNID),
                   pascalString(carbonize(record.TargetName), 64)),
          record.TargetCNID),
    BESecs(dateInSecs(record.TargetCreation, arch)))

\* lines 121-130: the creator code to the reserved bytes
prefixRest(e, record) ==
  write(add16(write(add16(add16(write(write(e, record.TargetCreator),
                                      record.TargetType),
                                65535), 65535),
                    record.VolumeAttributes),
              record.VolumeID),
        Zeros(10))

\* F applied to the members of S, once S has been worked out
Then(S, F(_)) == {F(x) : x \in S}

Only(S) == CHOOSE x \in S : TRUE

\* lines 132-139, with the CNID path and the Carbon path in the other order
extensionsSwapped(e, record, arch) ==
  Only(Then(Then(Then(Then(Then(Then(Then({e},
    LAMBDA x : folderNameTag(x, record)),
    LAMBDA x : dateTags(x, record, arch)),
    LAMBDA x : carbonPathTag(x, record)),
    LAMBDA x : cnidPathTag(x, record)),
    LAMBDA x : filenameTag(x, record)),
    LAMBDA x : volumeNameTag(x, record)),
    LAMBDA x : posixPathTag(x, record)))

\* lines 132-139
extensions(e, record, arch) ==
  Only(Then(Then(Then(Then(Then(Then(Then({e},
    LAMBDA x : folderNameTag(x, record)),
    LAMBDA x : dateTags(x, record, arch)),
    LAMBDA x : cnidPathTag(x, record)),
    LAMBDA x : carbonPathTag(x, record)),
    LAMBDA x : filenameTag(x, record)),
    LAMBDA x : volumeNameTag(x, record)),
    LAMBDA x : posixPathTag(x, record)))

\* lines 140-141
sentinel(e) == add16(add16(e, 65535), 0)

\* lines 143-146: the record size put at data[4:] and what encode returns
finish(e) ==
  [bytes |-> SubSeq(e.buf, 1, 4) \o BE16(Len(e.buf) % 65536)
             \o SubSeq(e.buf, 7, Len(e.buf)),
   err |-> e.err, exts |-> e.exts]

\* lines 97-147
encode(record, arch) ==
  Only(Then(Then(Then(Then(Then({newAliasRecordEncoder},
    LAMBDA x : prefixVolume(x, record, arch)),
    LAMBDA x : prefixTarget(x, record, arch)),
    LAMBDA x : prefixRest(x, record)),
    LAMBDA x : sentinel(extensions(x, record, arch))),
    LAMBDA x : finish(x)))

(***************************************************************************)
(* AliasRecord values handed to Encode.                                    *)
(***************************************************************************)
BigCnidLen == 16350

LongVolumeName == [i \in 1..30 |-> 86]

LongTargetName == [i \in 1..70 |-> 116]

\* "HD", "A/B" and a name of 30 bytes
RecVolumeNames == {<<72, 68>>, <<65, 47, 66>>, LongVolumeName}

\* "f.go", "a" and a name of 70 bytes
RecTargetNames == {<<102, 46, 103, 111>>, <<97>>, LongTargetName}

\* 100 s and 3670016001 s after 1904, and a time Sub saturates for
RecDates == {[kind |-> "secs", hi |-> 0, lo |-> 100],
             [kind |-> "secs", hi |-> 56000, lo |-> 1],
             [kind |-> "far", hi |-> 0, lo |-> 0]}

RecCnidPaths == {<< >>, <<1, 196610>>}

\* "/a/f.go" and "/f.go" with their items
RecPaths ==
  {[Path |-> <<47, 97, 47, 102, 46, 103, 111>>, PathItems |-> <<<<97>>, <<102, 46, 103, 111>>>>],
   [Path |-> <<47, 102, 46, 103, 111>>, PathItems |-> <<<<102, 46, 103, 111>>>>]}

MakeRecord(p, cnids, vol, vdate, fs, target, tdate) ==
  [Path |-> p.Path, CNIDPath |-> cnids, PathItems |-> p.PathItems,
   AppCode |-> Zeros(4), Version |-> 2, Kind |-> 0, VolumeName |-> vol,
   VolumeDate |-> vdate, FileSystem |-> fs, DiskType |-> 0,
   FolderCNID |-> 2, TargetName |-> target, TargetCNID |-> 196610,
   TargetCreation |-> tdate, TargetCreator |-> Zeros(4),
   TargetType |-> Zeros(4), DirsAliasToRoot |-> 65535,
   DirsRootToTarget |-> 65535, VolumeAttributes |-> Zeros(4),
   VolumeID |-> 0]

\* "H+"
StrHPlus == <<72, 43>>

\* "APFS"
StrAPFS == <<65, 80, 70, 83>>

PlainRecord ==
  MakeRecord(CHOOSE p \in RecPaths : Len(p.PathItems) = 2, << >>, <<72, 68>>,
             [kind |-> "secs", hi |-> 0, lo |-> 100], StrHPlus, <<102, 46, 103, 111>>,
             [kind |-> "secs", hi |-> 0, lo |-> 100])

RecordInputs ==
  {MakeRecord(p, cnids, vol, vdate, StrHPlus, target, tdate) :
     p \in RecPaths, cnids \in RecCnidPaths, vol \in RecVolumeNames,
     vdate \in RecDates, target \in RecTargetNames, tdate \in RecDates}
  \cup {[PlainRecord EXCEPT !.FileSystem = StrAPFS],
        [PlainRecord EXCEPT !.CNIDPath = [i \in 1..BigCnidLen |-> 7]]}

Archs == {"amd64", "arm64"}

InitR ==
  /\ pc = "new"
  /\ in \in RecordInputs
  /\ b = ZeroData
  /\ data = << >>
  /\ wr = NoWrite
  /\ result = NoResult
  /\ prev = NoResult
  /\ change = NoChange

\* a.Encode(); the bytes it returns are kept in `data`, the error and the
\* extensions it started in `wr`
DoEncode ==
  /\ pc = "new"
  /\ \E arch \in Archs :
       \E r \in {encode(in, arch)} :
         /\ wr' = [err |-> r.err, exts |-> r.exts]
         /\ data' = r.bytes
  /\ pc' = "encoded"
  /\ UNCHANGED <<in, b, result, prev, change>>

NextR == DoEncode

SpecR == InitR /\ [][NextR]_vars

(***************************************************************************)
(* unnamed/part_000: the error bookkeeping of the encoder.  Every write    *)
(* and add hands the error of its step to setError, and encode returns     *)
(* e.err; the encoder is built with a nil or a preset err, as the tests of *)
(* part_001 build it.  `wr` holds e.err, the number of steps done and      *)
(* whether a step has reported an error.                                   *)
(***************************************************************************)
MaxSteps == 4

StepErrors == {"short write", "invalid type"}

InitE ==
  /\ pc = "encoding"
  /\ in = ZeroData
  /\ b = ZeroData
  /\ data = << >>
  /\ \E err \in {NoErr, "preset"} :
       wr = [err |-> err, steps |-> 0, reported |-> FALSE]
  /\ result = NoResult
  /\ prev = NoResult
  /\ change = NoChange

\* lines 149-156: a write or an add whose step reports err
DoStep ==
  /\ pc = "encoding"
  /\ wr.steps < MaxSteps
  /\ \E err \in StepErrors \cup {NoErr} :
       wr' = [encoderSetError(wr, err) EXCEPT
                !.steps = @ + 1, !.reported = @ \/ err # NoErr]
  /\ UNCHANGED <<pc, in, b, data, result, prev, change>>

\* line 146: return e.buf.Bytes(), e.err
DoReturn ==
  /\ pc = "encoding"
  /\ pc' = "returned"
  /\ result' = [NoResult EXCEPT !.err = wr.err]
  /\ UNCHANGED <<in, b, data, wr, prev, change>>

NextE == DoStep \/ DoReturn

SpecE == InitE /\ [][NextE]_vars

(***************************************************************************)
(* bookmark_data.go: BookmarkData.TargetPath applied to values over a      *)
(* wider range of volume paths and path components, among them those of    *)
(* the exFAT alias of alias_decoder_darwin_test.go.                        *)
(***************************************************************************)
\* "Volumes"
StrVolumes ==
  <<86, 111, 108, 117, 109, 101, 115>>

\* "MattSplice"
StrMattSplice ==
  <<77, 97, 116, 116, 83, 112, 108, 105, 99, 101>>

\* "file.wav"
StrFileWav ==
  <<102, 105, 108, 101, 46, 119, 97, 118>>

\* "/Volumes/MattSplice"
StrMattVolume ==
  <<47, 86, 111, 108, 117, 109, 101, 115, 47, 77, 97, 116, 116, 83, 112,
    108, 105, 99, 101>>

\* "/Volumes/MattSpliceVolumes/MattSplice/file.wav"
StrMattTarget ==
  <<47, 86, 111, 108, 117, 109, 101, 115, 47, 77, 97, 116, 116, 83, 112,
    108, 105, 99, 101, 86, 111, 108, 117, 109, 101, 115, 47, 77, 97, 116,
    116, 83, 112, 108, 105, 99, 101, 47, 102, 105, 108, 101, 46, 119, 97,
    118>>

MattPath == <<StrVolumes, StrMattSplice, StrFileWav>>

TargetItems == {<< >>, StrU, StrVolumes, StrMattSplice, StrFileWav}

TargetVolumePaths == {<< >>, StrRoot, StrVol, StrMattVolume}

TargetInputs ==
  {MakeData(path, << >>, FALSE, 0, << >>,
            [VolumePath |-> vp, VolumeURL |-> << >>, VolumeName |-> << >>,
             VolumeUUID |-> << >>, VolumeSize |-> U64(0),
             VolumeCreationDate |-> ZeroTime, VolumeProperties |-> << >>],
            UnsetFile) :
     path \in SeqsUpTo(TargetItems, MaxPathLen) \cup {MattPath},
     vp \in TargetVolumePaths}

InitP == InitWith(TargetInputs)

\* b.TargetPath(); the string it returns is kept in `data`
DoTargetPath ==
  /\ pc = "new"
  /\ data' = TargetPath(b)
  /\ pc' = "targetPath"
  /\ UNCHANGED <<in, b, wr, result, prev, change>>

NextP == DoTargetPath

SpecP == InitP /\ [][NextP]_vars

(***************************************************************************)
(* C11  Header validation: AliasFromReader returns a non-nil error when    *)
(* the first magic is not "book", the second is not "mark", or one of the  *)
(* two declared header sizes (file offsets 16 and 20) is not the actual    *)
(* header length.  aliasHeader skips the size at offset 20 unread.         *)
(***************************************************************************)
C11_HeaderValidated ==
  (pc = "reread" /\ change.what = "header") => result.err # NoErr

(***************************************************************************)
(* C12  Array length law on read: when the declared length of the Path or  *)
(* the CNIDPath array is not divisible by 4, AliasFromReader returns a     *)
(* non-nil error.  The decoders compute nItems := size / 4 and go on.      *)
(***************************************************************************)
C12_OddArrayLengthFails ==
  (/\ pc = "reread"
   /\ change.what = "arrayLength"
   /\ change.arg[1] % 4 # 0)
  => result.err # NoErr

(***************************************************************************)
(* The Arrays Write emits, read from the typed values it recorded.         *)
(***************************************************************************)
ArrayKeys == {KBookmarkPath, KBookmarkCNIDPath, KBookmarkTOCPath}

\* the length an Array value declares in its first 4 bytes
DeclaredLength(value) == Uint32(SubSeq(value, 1, 4))

\* the number of u32 entries written after the 8-byte header
EntryCount(value) == (Len(value) - 8) \div 4

\* the i-th u32 entry after the 8-byte header
EntryAt(value, i) == Uint32(SubSeq(value, 8 + (4 * (i - 1)) + 1, 8 + (4 * i)))

(***************************************************************************)
(* C13  Array length law on write: every Array Write emits (Path,          *)
(* CNIDPath, TOCPath) declares a length of 4 times the number of u32       *)
(* entries written after its header.  The CNIDPath array declares          *)
(* 4 * len(CNIDPath) and writes len(Path) entries; the TOCPath array       *)
(* declares 42.                                                            *)
(***************************************************************************)
C13_ArrayLengthLaw ==
  Written =>
    \A k \in ArrayKeys \cap DOMAIN wr.oMap :
      DeclaredLength(wr.vals[k]) = 4 * EntryCount(wr.vals[k])

\* the file position decodeStringSlice seeks to for an array entry:
\* d.headerSize + offset, with the header size the written header declares
ResolvedEntry(entry) == Uint32(BytesAt(data, 16, 4)) + entry

\* file position pos is where a typed value begins that Write put into the
\* body before body offset `before`
ValueStartsAt(pos, before) ==
  \E j \in 1..Len(wr.emits) :
    /\ BodyStart + wr.emits[j] = pos
    /\ wr.emits[j] < before

(***************************************************************************)
(* C14  Array follows its elements: every entry of every Array Write       *)
(* emits, resolved as the reader resolves it (declared header size +       *)
(* entry), is the position of the first byte of a typed value written      *)
(* into the body before the Array.  The TOCPath entries are slashPos + 52, *)
(* + 56, + 60, and the unused slots of cnidOffsets are 0.                  *)
(***************************************************************************)
C14_EntriesAddressValues ==
  Written =>
    \A k \in ArrayKeys \cap DOMAIN wr.oMap :
      \A i \in 1..EntryCount(wr.vals[k]) :
        ValueStartsAt(ResolvedEntry(EntryAt(wr.vals[k], i)), wr.oMap[k])

(***************************************************************************)
(* The key table of section 3.2 of the specification: kind of every key    *)
(* Write records, and the width in bytes of the Numbers.                   *)
(***************************************************************************)
TableKind(key) ==
  CASE key = KBookmarkTOCPath -> 6
    [] key = KBookmarkFileType -> 2
    [] OTHER -> ExpectedKind(key)

TableWidth(key) ==
  CASE key \in {KBookmarkFileID, KBookmarkContainingFolder, KBookmarkUID,
                KBookmarkCreationOptions} -> 4
    [] key = KBookmarkVolumeSize -> 8
    [] OTHER -> 0

\* the typed value has the kind, and for a Number the width, of the table
HasTableType(key, value) ==
  /\ value[6] = TableKind(key)
  /\ TableKind(key) = 3 =>
       /\ DeclaredLength(value) = TableWidth(key)
       /\ Len(value) = 8 + TableWidth(key)
       /\ value[5] = (IF TableWidth(key) = 4 THEN KCFNumberSInt32Type
                                            ELSE KCFNumberSInt64Type)

(***************************************************************************)
(* C15  Value kinds per key: for every key Write records, the value at     *)
(* the recorded offset has the kind the key table assigns to the key, and  *)
(* a Number has the table's width: ContainingFolder, UID, CreationOptions  *)
(* 4 bytes, VolumeSize 8 bytes.  Write emits ContainingFolder with         *)
(* encodedUint64.                                                          *)
(***************************************************************************)
C15_KindsPerKey ==
  pc = "read" =>
    \A k \in DOMAIN wr.oMap :
      /\ HasTableType(k, wr.vals[k])
      /\ BytesAt(data, result.oMap[k], Len(wr.vals[k])) = wr.vals[k]

(***************************************************************************)
(* The field of the input value behind each key of the TOC, and whether    *)
(* it is set.  FileType and TOCPath are computed by Write from the other   *)
(* fields and count as set; FullFileName is the last component of Path.    *)
(***************************************************************************)
FieldIsSet(v, key) ==
  CASE key = KBookmarkCreationOptions -> v.CreationOptions # 0
    [] key = KBookmarkPath -> v.Path # << >>
    [] key = KBookmarkFullFileName -> v.Path # << >> \/ v.Filename # << >>
    [] key = KBookmarkCNIDPath -> v.CNIDPath # << >>
    [] key = KBookmarkFileCreationDate -> v.FileCreationDate # ZeroTime
    [] key = KBookmarkFileProperties -> v.FileProperties # << >>
    [] key = KBookmarkContainingFolder -> v.ContainingFolderIDX # 0
    [] key = KBookmarkUID -> v.UID # 0
    [] key = KBookmarkVolumeURL -> v.VolumeURL # << >>
    [] key = KBookmarkVolumeName -> v.VolumeName # << >>
    [] key = KBookmarkVolumeSize -> v.VolumeSize # U64(0)
    [] key = KBookmarkVolumeCreationDate -> v.VolumeCreationDate # ZeroTime
    [] key = KBookmarkVolumeUUID -> v.VolumeUUID # << >>
    [] key = KBookmarkVolumeProperties -> v.VolumeProperties # << >>
    [] key = KBookmarkVolumePath -> v.VolumePath # << >>
    [] key = KBookmarkVolumeIsRoot -> v.VolumeIsRoot
    [] key = KBookmarkUserName -> v.UserName # << >>
    [] OTHER -> TRUE

(***************************************************************************)
(* C16  Unset fields are omitted: a key is in the TOC Write produces only  *)
(* if the field behind it is set on the input.  Write records most keys    *)
(* unconditionally.                                                        *)
(***************************************************************************)
C16_UnsetOmitted ==
  Written =>
    \A i \in 1..TocCount(wr.toc) : FieldIsSet(in, TocKeyAt(wr.toc, i))

(***************************************************************************)
(* C17  Empty optional fields: for a value in which only Path, VolumePath  *)
(* and VolumeURL are set, AliasFromReader on the output of Write returns   *)
(* those three as given and every other field at its zero value.  Write    *)
(* emits CreationOptions 1024 and both dates whatever the input holds, and *)
(* the reader fills Filename from the last component of Path.              *)
(***************************************************************************)
C17_OthersAtDefault ==
  (pc = "read" /\ in \in SparseInputs) =>
    /\ ~result.isNil
    /\ result.err = NoErr
    /\ \A f \in {"Path", "VolumePath", "VolumeURL"} : result.b[f] = in[f]
    /\ \A f \in RoundTripFields \ {"Path", "VolumePath", "VolumeURL"} :
         result.b[f] = ZeroData[f]

(***************************************************************************)
(* C18  Deterministic encoding: a second Write of the same value yields    *)
(* the bytes the first one yielded, whatever order the range over the      *)
(* offset map yields the keys in.                                          *)
(***************************************************************************)
C18_WriteDeterministic ==
  pc = "rewritten" => (~wr.panic /\ wr.bytes = data)

\* a second Write whose range yielded the keys out of order
C18_Witness ==
  /\ pc = "rewritten"
  /\ Len(change.arg) >= 3
  /\ change.arg # SortInts(change.arg)
  /\ wr.bytes = data

\* the components with a "/" between each two of them
RECURSIVE SlashJoined(_)
SlashJoined(path) ==
  IF path = << >> THEN << >>
  ELSE IF Len(path) = 1 THEN path[1]
  ELSE path[1] \o <<Slash>> \o SlashJoined(Tail(path))

NonEmpty(c) == c # << >>

\* every component non-empty, without "/", and neither "." nor ".."
PlainPath(path) ==
  \A i \in 1..Len(path) :
    /\ path[i] # << >>
    /\ \A j \in 1..Len(path[i]) : path[i][j] # Slash
    /\ path[i] \notin {<<Dot>>, <<Dot, Dot>>}

\* "/Volumes/MattSplice/Volumes/MattSplice/file.wav"
StrMattSeparated == StrMattVolume \o <<Slash>> \o SlashJoined(MattPath)

(***************************************************************************)
(* C19  TargetPath formula, as stated: TargetPath() returns VolumePath,    *)
(* then a "/" separator, then the Path components joined by "/"; for       *)
(* "/Volumes/MattSplice" and ["Volumes", "MattSplice", "file.wav"] it      *)
(* returns "/Volumes/MattSplice/Volumes/MattSplice/file.wav".              *)
(***************************************************************************)
C19_SeparatorInserted ==
  pc = "targetPath" =>
    /\ data = in.VolumePath \o <<Slash>> \o SlashJoined(in.Path)
    /\ (in.VolumePath = StrMattVolume /\ in.Path = MattPath)
         => data = StrMattSeparated

(***************************************************************************)
(* C19  TargetPath formula, amended: TargetPath() returns VolumePath       *)
(* followed at once by the non-empty Path components joined by "/"; no     *)
(* separator is put between the two, and for "/Volumes/MattSplice" and     *)
(* ["Volumes", "MattSplice", "file.wav"] it returns                        *)
(* "/Volumes/MattSpliceVolumes/MattSplice/file.wav".                       *)
(***************************************************************************)
C19_NoSeparatorInserted ==
  pc = "targetPath" =>
    /\ data = in.VolumePath \o SlashJoined(SelectSeq(in.Path, NonEmpty))
    /\ (in.VolumePath = StrMattVolume /\ in.Path = MattPath)
         => data # StrMattSeparated

\* a volume path without a trailing "/" and a path with an empty component
C19_Witness ==
  /\ pc = "targetPath"
  /\ in.VolumePath = StrVol
  /\ in.Path = <<StrU, << >>>>
  /\ data = StrVol \o StrU

(***************************************************************************)
(* C20  TargetPath as tested: when the Path components are non-empty and   *)
(* hold no "/", "." or "..", TargetPath() is VolumePath immediately        *)
(* followed by the components joined with "/"; for "/Volumes/MattSplice"   *)
(* and ["Volumes", "MattSplice", "file.wav"] it is                         *)
(* "/Volumes/MattSpliceVolumes/MattSplice/file.wav".                       *)
(***************************************************************************)
C20_TargetPathAsTested ==
  (pc = "targetPath" /\ PlainPath(in.Path)) =>
    /\ data = in.VolumePath \o SlashJoined(in.Path)
    /\ in.VolumePath = StrRoot => data = <<Slash>> \o SlashJoined(in.Path)
    /\ (in.VolumePath = StrMattVolume /\ in.Path = MattPath)
         => data = StrMattTarget

\* the exFAT alias of the test
C20_Witness ==
  /\ pc = "targetPath"
  /\ in.VolumePath = StrMattVolume
  /\ in.Path = MattPath
  /\ data = StrMattTarget

\* the big-endian uint16 at bytes `at` and `at + 1` (counted from 0)
U16At(bytes, at) == (bytes[at + 1] * 256) + bytes[at + 2]

(***************************************************************************)
(* C21  AliasRecord length field: the big-endian u16 at bytes 4-5 of the   *)
(* output of Encode equals the number of bytes Encode returns, also for    *)
(* records of 65536 bytes and more.                                        *)
(***************************************************************************)
C21_LengthField ==
  pc = "encoded" => U16At(data, 4) = Len(data)

(***************************************************************************)
(* C22  Fixed-width Pascal strings: for every string the volume-name field *)
(* the encoder emits is exactly 28 bytes and the target-name field exactly *)
(* 64 bytes, so that the first extension of every encoded record starts at *)
(* byte 150; longer strings are truncated.                                 *)
(***************************************************************************)
C22_FixedWidthNames ==
  pc = "encoded" =>
    /\ Len(pascalString(carbonize(in.VolumeName), 28)) = 28
    /\ Len(pascalString(carbonize(in.TargetName), 64)) = 64
    /\ wr.exts[1].at = 150

\* where the encoder started the extension `tag`
TagStart(tag) ==
  wr.exts[CHOOSE i \in 1..Len(wr.exts) : wr.exts[i].tag = tag].at

\* the 8 bytes after the tag and the length of the extension `tag`
Payload8(tag) == SubSeq(data, TagStart(tag) + 5, TagStart(tag) + 12)

\* seconds x 65536 as an unsigned 64-bit number, big-endian
ExactProduct(s) == <<0, 0>> \o BE16(s.hi) \o BE16(s.lo) \o <<0, 0>>

(***************************************************************************)
(* C23  High-resolution dates: in every encoded AliasRecord the payload of *)
(* tag 16 is the volume creation seconds x 65536 and the payload of tag 17 *)
(* the target creation seconds x 65536, each the exact unsigned 64-bit     *)
(* product.                                                                *)
(***************************************************************************)
C23_HighResDates ==
  pc = "encoded" =>
    \E arch \in Archs :
      /\ Payload8(aliasTagHighResVolumeCreationDate)
           = ExactProduct(dateInSecs(in.VolumeDate, arch))
      /\ Payload8(aliasTagHighResCreationDate)
           = ExactProduct(dateInSecs(in.TargetCreation, arch))

ExtensionOrder ==
  <<aliasTagCarbonFolderName, aliasTagHighResVolumeCreationDate,
    aliasTagHighResCreationDate, aliasTagCnidPath, aliasTagCarbonPath,
    aliasTagUnicodeFilename, aliasTagUnicodeVolumeName, aliasTagPosixPath,
    aliasTagPosixPathToMountpoint>>

\* the number of bytes the i-th extension occupies: up to the next
\* extension, for the last one up to the sentinel
ExtSize(i) ==
  (IF i < Len(wr.exts) THEN wr.exts[i + 1].at ELSE Len(data) - 4)
  - wr.exts[i].at

\* the length the i-th extension declares
ExtLength(i) == U16At(data, wr.exts[i].at + 2)

(***************************************************************************)
(* C24  AliasRecord extension order: in every output of Encode the tags    *)
(* 0, 16, 17, 1, 2, 14, 15, 18, 19 appear once each in this order, every   *)
(* extension occupies an even number of bytes, with one zero byte after a  *)
(* payload of odd length, and the last 4 bytes are the sentinel FFFF 0000. *)
(***************************************************************************)
C24_ExtensionOrder ==
  pc = "encoded" =>
    /\ [i \in 1..Len(wr.exts) |-> wr.exts[i].tag] = ExtensionOrder
    /\ \A i \in 1..Len(wr.exts) :
         /\ U16At(data, wr.exts[i].at) = wr.exts[i].tag
         /\ ExtSize(i) % 2 = 0
         /\ ExtSize(i) = 4 + ExtLength(i) + (ExtLength(i) % 2)
         /\ ExtLength(i) % 2 = 1 => data[wr.exts[i].at + ExtSize(i)] = 0
    /\ SubSeq(data, Len(data) - 3, Len(data)) = <<255, 255, 0, 0>>

\* a record whose folder name has an odd length
C24_Witness ==
  /\ pc = "encoded"
  /\ Len(wr.exts) = 9
  /\ ExtLength(1) % 2 = 1
  /\ ExtSize(1) = 6
  /\ SubSeq(data, Len(data) - 3, Len(data)) = <<255, 255, 0, 0>>

\* the TOC of the bytes handed to the reader, from where the reader found it
DataToc == SubSeq(data, result.tocPos + 1, Len(data))

\* AliasFromReader got past the header and the TOC
C25_Case == pc \in {"read", "reread"} /\ ~result.isNil

(***************************************************************************)
(* C25  Reader offset formula, as stated: for every TOC entry (key,        *)
(* stored offset, reserved) the reader maps the key to the file position   *)
(* header size + stored offset - 4, the header size being the one the      *)
(* header declares.                                                        *)
(***************************************************************************)
C25_OffsetLess4 ==
  C25_Case =>
    \A i \in 1..TocCount(DataToc) :
      result.oMap[TocKeyAt(DataToc, i)]
        = (result.headerSize + TocOffsetAt(DataToc, i)) - 4

(***************************************************************************)
(* C25  Reader offset formula, amended: for every TOC entry the reader     *)
(* maps the key to the file position header size + stored offset; nothing  *)
(* is subtracted.                                                          *)
(***************************************************************************)
C25_OffsetPlusHeader ==
  C25_Case =>
    \A i \in 1..TocCount(DataToc) :
      result.oMap[TocKeyAt(DataToc, i)]
        = result.headerSize + TocOffsetAt(DataToc, i)

\* a TOC with an appended entry read back
C25_Witness ==
  /\ pc = "reread"
  /\ change.what = "addEntry"
  /\ result.err = NoErr
  /\ TocCount(DataToc) = Cardinality(DOMAIN wr.oMap) + 1
  /\ result.headerSize = 56
  /\ result.oMap[change.key] = 56 + (change.arg[1] + 4)

\* the pair AliasFromReader returns
Outcome(r) == <<r.isNil, r.b, r.err>>

(***************************************************************************)
(* C26  Order independence of decoding: for every input, well-formed or    *)
(* malformed, the pair (BookmarkData, error) AliasFromReader returns is    *)
(* the same for every order in which the keys of the TOC map are visited.  *)
(***************************************************************************)
C26_OrderIndependent ==
  pc \in {"read", "reread"} =>
    \A rot \in 0..MaxRot, down \in BOOLEAN :
      Outcome(AliasFromReader(data, rot, down)) = Outcome(result)

(***************************************************************************)
(* C27  Filename is an alias of the last path component: with a non-empty  *)
(* Path, Write stores under FullFileName (0xF017) the position the last    *)
(* entry of the Path array holds and writes nothing for the Filename       *)
(* field, so the decoded Filename is the last element of Path whatever the *)
(* input Filename is; with an empty Path no 0xF017 entry is written.       *)
(***************************************************************************)
C27_FilenameIsLastPathItem ==
  /\ Written =>
       /\ in.Path # << >> =>
            /\ KBookmarkFullFileName \in DOMAIN wr.oMap
            /\ wr.oMap[KBookmarkFullFileName] + 4
                 = EntryAt(wr.vals[KBookmarkPath], Len(in.Path))
       /\ in.Path = << >> => KBookmarkFullFileName \notin DOMAIN wr.oMap
       /\ wr.bytes = Write([in EXCEPT !.Filename = << >>]).bytes
  /\ (pc = "read" /\ in.Path # << >>) =>
       result.b.Filename = in.Path[Len(in.Path)]

\* a Filename that differs from both path components
C27_Witness ==
  /\ pc = "read"
  /\ in.Path = <<StrU, StrFile>>
  /\ in.Filename = StrU
  /\ result.err = NoErr
  /\ result.b.Filename = StrFile

OnlyPaths(v) == [ZeroData EXCEPT !.VolumePath = v.VolumePath, !.Path = v.Path]

(***************************************************************************)
(* C29  Frame of Write: Write changes no field of the BookmarkData it      *)
(* encodes other than TypeData; after Write has returned, TypeData is      *)
(* what VolumePath and Path alone determine (the extension of              *)
(* TargetPath()), and every other field has the value it had before.       *)
(***************************************************************************)
C29_WriteFrame ==
  /\ pc # "new" => \A f \in DOMAIN in \ {"TypeData"} : b[f] = in[f]
  /\ pc \in {"written", "read", "rewritten"} =>
       b.TypeData = prepareTypeData(OnlyPaths(in))
  /\ pc = "panic" => b = in

\* Write has replaced the TypeData of a value whose target has an extension
C29_Witness ==
  /\ pc = "written"
  /\ in.Path = <<StrU, StrFile>>
  /\ in.Filename = StrU
  /\ in.TypeData = << >>
  /\ b.TypeData # in.TypeData
  /\ b.Path = in.Path

(***************************************************************************)
(* alias_darwin.go: Alias(src, dst), one action per step of the function.  *)
(* The file system is the environment: each call that can report an error  *)
(* either succeeds or fails.  wr holds the destination (dst: "absent",     *)
(* "old", "empty" after os.Create, "bookmark" after Write), whether the    *)
(* com.apple.FinderInfo attribute was set by this call, and the number of  *)
(* ancestors the walk has still to visit; data is the log of the steps     *)
(* that were taken.                                                        *)
(***************************************************************************)
\* the deepest source path: ancestors above the containing folder
MaxDepth == 2

\* Finder flag mask of an alias file
FFKIsAlias == 32768

\* flags & mask on uint16 values, mask a single bit
BitAnd(flags, mask) == ((flags \div mask) % 2) * mask

\* a test of equality in place of the mask
isAliasSourceEq(flags) == flags = FFKIsAlias

\* line 453: fileAttrs.FileInfo.FinderFlags&darwin.FFKIsAlias > 0
isAliasSource(flags) == BitAnd(flags, FFKIsAlias) > 0

\* Finder flags of the source: none, a custom icon, an alias, an alias with
\* other bits, every bit
FinderFlagValues == {0, 1024, 32768, 32769, 33792, 65535}

FileSystemTypes == {"hfs", "apfs", "exfat"}

AliasInputs ==
  [flags : FinderFlagValues, fsType : FileSystemTypes,
   depth : 0..MaxDepth, dst : {"absent", "old"}]

InitA ==
  /\ pc = "abs"
  /\ in \in AliasInputs
  /\ b = ZeroData
  /\ data = << >>
  /\ wr = [dst |-> in.dst, xattr |-> FALSE, left |-> in.depth]
  /\ result = NoResult
  /\ prev = NoResult
  /\ change = NoChange

\* a return of Alias with err
AliasReturn(err) ==
  /\ pc' = "returned"
  /\ result' = [NoResult EXCEPT !.err = err]

\* a step that changes nothing outside the process: on to next, or return
AliasStep(name, next, failure) ==
  /\ data' = Append(data, name)
  /\ \/ pc' = next /\ UNCHANGED result
     \/ failure # NoErr /\ AliasReturn(failure)
  /\ UNCHANGED <<in, b, wr, prev, change>>

\* lines 377-380: filepath.Abs(src)
DoAbs ==
  /\ pc = "abs"
  /\ AliasStep("abs", "statfs", "failed to get the path of the source")

\* lines 385-388: syscall.Statfs(srcPath, &stat)
DoStatfs ==
  /\ pc = "statfs"
  /\ AliasStep("statfs", "volattrs", "failed to read the file stats")

\* lines 410-436: the volume attributes; a failure leaves them blank
DoVolumeAttrs ==
  /\ pc = "volattrs"
  /\ AliasStep(IF in.fsType = "hfs" THEN "volattrs" ELSE "volstat",
               "fileattrs", NoErr)

\* lines 438-448: darwin.GetAttrList(srcPath, ..., FSOPT_NOFOLLOW)
DoFileAttrs ==
  /\ pc = "fileattrs"
  /\ AliasStep("fileattrs", "check",
               "failed to retrieve file attribute list")

\* lines 453-455: the source is an alias
DoCheck ==
  /\ pc = "check"
  /\ data' = Append(data, "check")
  /\ IF isAliasSource(in.flags)
       THEN AliasReturn("can't safely bookmark to a bookmark, choose another source")
       ELSE pc' = "create" /\ UNCHANGED result
  /\ UNCHANGED <<in, b, wr, prev, change>>

\* lines 457-461: os.Create(filepath.Clean(dst)) creates or truncates
DoCreate ==
  /\ pc = "create"
  /\ \/ /\ data' = Append(data, "create")
        /\ wr' = [wr EXCEPT !.dst = "empty"]
        /\ pc' = "statsrc"
        /\ UNCHANGED result
     \/ /\ data' = Append(data, "create failed")
        /\ AliasReturn("failed to create the file at destination")
        /\ UNCHANGED wr
  /\ UNCHANGED <<in, b, prev, change>>

\* lines 463-466: os.Stat(srcPath)
DoStatSource ==
  /\ pc = "statsrc"
  /\ AliasStep("statsrc", "statdir", "failed to retrieve file id")

\* lines 538-541: os.Stat(filepath.Dir(subPath))
DoStatDir ==
  /\ pc = "statdir"
  /\ AliasStep("statdir", "walk", "failed to retrieve file id")

\* lines 549-563: one turn of the walk up the path
DoWalk ==
  /\ pc = "walk"
  /\ wr.left > 0
  /\ data' = Append(data, "walk")
  /\ \/ /\ wr' = [wr EXCEPT !.left = @ - 1]
        /\ UNCHANGED <<pc, result>>
     \/ /\ AliasReturn("failed to retrieve file id")
        /\ UNCHANGED wr
  /\ UNCHANGED <<in, b, prev, change>>

\* lines 565-572: bookmark.Write(w), w.Close(), darwin.SetAsAlias(dst), whose
\* errors are dropped, and the return of err, nil since line 538
DoWriteAndFlag ==
  /\ pc = "walk"
  /\ wr.left = 0
  /\ data' = Append(data, "write")
  /\ \E set \in BOOLEAN :
       wr' = [wr EXCEPT !.dst = "bookmark", !.xattr = set]
  /\ AliasReturn(NoErr)
  /\ UNCHANGED <<in, b, prev, change>>

NextA ==
  \/ DoAbs
  \/ DoStatfs
  \/ DoVolumeAttrs
  \/ DoFileAttrs
  \/ DoCheck
  \/ DoCreate
  \/ DoStatSource
  \/ DoStatDir
  \/ DoWalk
  \/ DoWriteAndFlag

SpecA == InitA /\ [][NextA]_vars

\* position of the first entry of the log equal to name, 0 when there is none
FirstOf(name) ==
  IF \E i \in 1..Len(data) : data[i] = name
    THEN CHOOSE i \in 1..Len(data) :
           data[i] = name /\ \A j \in 1..(i - 1) : data[j] # name
    ELSE 0

(***************************************************************************)
(* C30: Alias never overwrites for an alias source.  When the Finder flags *)
(* of the source have the bit 0x8000, the destination is never created or  *)
(* truncated and the com.apple.FinderInfo attribute is never set, at any   *)
(* point of any execution, and a call that has returned has returned a     *)
(* non-nil error; whatever the flags, an attempt to create the destination *)
(* comes after the alias check.                                            *)
(***************************************************************************)
C30_AliasSourceNeverOverwrites ==
  /\ (in.flags \div 32768) % 2 = 1 =>
       /\ wr.dst = in.dst
       /\ ~wr.xattr
       /\ FirstOf("create") = 0 /\ FirstOf("create failed") = 0
       /\ FirstOf("write") = 0
       /\ pc = "returned" => result.err # NoErr
  /\ \A i \in 1..Len(data) :
       data[i] \in {"create", "create failed"} =>
         FirstOf("check") \in 1..(i - 1)

\* an alias source, with other flag bits set, was refused by the check while
\* an older file stood at the destination
C30_Witness ==
  /\ pc = "returned"
  /\ in.flags = 33792
  /\ in.dst = "old" /\ wr.dst = "old"
  /\ FirstOf("check") = Len(data)
  /\ result.err = "can't safely bookmark to a bookmark, choose another source"

====
